---- MODULE Spec2Model ----
(***************************************************************************)
(* Cricket bowling biomechanics: per-frame measurement extraction, the     *)
(* time-series aggregator, the phase segmentation heuristics, the metric   *)
(* derivation, the composite score and the suggestion rules of             *)
(* src/biomechanics.py, driven by the recording and analysis pages of      *)
(* src/app.py; frame extraction (src/video_processor.py), the session      *)
(* store (src/data_handler.py) and smoothing (src/utils.py).  The          *)
(* specifications share the variables: Spec (recording and analysis page), *)
(* SpecPure (the analysis functions on given inputs), SpecPartial (the     *)
(* same on records lacking fields), SpecAngle (the angle functions on      *)
(* given points), SpecRerun (the analysis page run again), SpecFanOut (the *)
(* frames of a video extracted in any order), SpecSampling                 *)
(* (extract_frames), SpecPage (frame navigation of the analysis page),     *)
(* SpecStore (the session store) and SpecSmoothing (smooth_time_series).   *)
(*                                                                         *)
(* Number representation.  Angles are whole degrees.  atan2 is computed    *)
(* from a table of tangents to a whole degree: within one degree of the    *)
(* real value, and exact on the multiples of 45 degrees.  Normalised landmark coordinates are counted  *)
(* in units of 1/Unit, visibilities in hundredths.  The normalised release *)
(* point is kept in hundredths.  Metric values (means, standard            *)
(* deviations, sub-scores) are fixed-point numbers counted in units of     *)
(* 1/Scale; the standard deviation is the integer square root at that      *)
(* resolution.                                                             *)
(***************************************************************************)
EXTENDS Integers, Sequences, FiniteSets, TLC

VARIABLES
    pc,                 \* which handler of the page script runs next
    frame_shape,        \* (height, width) of the frames of the video
    processed_results,  \* the per-frame result sequence
    biomechanics_data,  \* st.session_state.biomechanics_data (time series)
    phases,             \* PhaseMap of the last analysis
    metrics,            \* metrics mapping of the last analysis
    score,              \* composite score of the last analysis
    suggestions,        \* suggestion areas of the last analysis
    error,              \* exception that escaped the last call ("" = none)
    points,             \* the points a, b, c handed to the angle functions
    angle,              \* what calculate_angle returned for them
    vector_angle,       \* what angle_between_points returned for them
    ran,                \* how often each analysis function has been applied
    frames,             \* what the pose detector answered for each frame of a video
    total_frames,       \* extract_frames: frame count of the opened video
    max_frames,         \* extract_frames: its max_frames argument
    sample_every,       \* extract_frames: the sampling rate
    frame_count,        \* extract_frames: frames read from the video so far
    frame_index,        \* st.session_state.frame_index
    current_result,     \* what indexing the result sequence by frame_index gave
    saved_sessions,     \* st.session_state.saved_sessions: id -> session data
    metadata_files,     \* the <id>_metadata.json files: id -> metadata
    call,               \* the last call to the session store and its argument
    returned,           \* what that call returned
    smooth_data,        \* smooth_time_series: its data argument
    window_size,        \* smooth_time_series: the window
    smoothed            \* smooth_time_series: what it returned

geometry_vars == <<points, angle, vector_angle>>
sampling_vars == <<total_frames, max_frames, sample_every, frame_count>>
page_vars == <<frame_index, current_result>>
store_vars == <<saved_sessions, metadata_files, call, returned>>
smoothing_vars == <<smooth_data, window_size, smoothed>>
utility_vars == <<sampling_vars, page_vars, store_vars, smoothing_vars>>

vars == <<pc, frame_shape, processed_results, biomechanics_data, phases,
          metrics, score, suggestions, error, points, angle, vector_angle,
          ran, frames, utility_vars>>

(***************************************************************************)
(* Bounds of the model.                                                    *)
(***************************************************************************)
MaxVideoFrames == 3     \* frames the recording loop processes
MaxSeqLen == 6          \* length of the per-frame sequences given as input

(***************************************************************************)
(* Representation.                                                         *)
(***************************************************************************)
None == [none |-> TRUE]         \* Python's None
EmptyDict == <<>>               \* Python's {}
NoneInt == -1                   \* None in a slot that otherwise holds an integer
Unit == 4                       \* normalised coordinates are k/Unit
Scale == 10                     \* metric values are k/Scale
NumLandmarks == 33              \* landmarks of a detected pose

\* the analysis functions of src/biomechanics.py, and none of them applied yet
AnalysisFunctions == {"extract_time_series_data", "identify_bowling_phases",
                      "calculate_performance_metrics", "calculate_technical_score",
                      "generate_suggestions"}
NeverRan == [f \in AnalysisFunctions |-> 0]

Abs(x) == IF x < 0 THEN -x ELSE x
Min2(a, b) == IF a < b THEN a ELSE b
Max2(a, b) == IF a > b THEN a ELSE b

\* the variables of extract_frames, of the frame navigation, of the session
\* store and of smooth_time_series while these are not running
SamplingIdle == total_frames = 0 /\ max_frames = 1 /\ sample_every = 1 /\ frame_count = 0
PageIdle == frame_index = 0 /\ current_result = None
StoreIdle == saved_sessions = None /\ metadata_files = <<>> /\ call = <<>> /\ returned = None
SmoothingIdle == smooth_data = <<>> /\ window_size = 1 /\ smoothed = <<>>
UtilitiesIdle == SamplingIdle /\ PageIdle /\ StoreIdle /\ SmoothingIdle

RECURSIVE SumSeq(_)
SumSeq(s) == IF s = <<>> THEN 0 ELSE Head(s) + SumSeq(Tail(s))

RECURSIVE MaxSeq(_)
MaxSeq(s) == IF Len(s) = 1 THEN s[1] ELSE Max2(Head(s), MaxSeq(Tail(s)))

RECURSIVE MinSeq(_)
MinSeq(s) == IF Len(s) = 1 THEN s[1] ELSE Min2(Head(s), MinSeq(Tail(s)))

\* list.index(v): the first position (0-based) holding v
FirstIndex(s, v) == (CHOOSE i \in 1..Len(s) :
                        /\ s[i] = v
                        /\ \A j \in 1..(i-1) : s[j] # v) - 1

\* int(x) of a fixed-point value: truncation towards zero
PyInt(x) == IF x >= 0 THEN x \div Scale ELSE -((-x) \div Scale)

(***************************************************************************)
(* math.atan2 / np.arctan2 in whole degrees.                               *)
(***************************************************************************)
\* 1000 * tan(d degrees) for d = 0..45, rounded up (tan 45 = 1 exactly)
TanMilli == <<0, 18, 35, 53, 70, 88, 106, 123, 141, 159, 177, 195, 213,
              231, 250, 268, 287, 306, 325, 345, 364, 384, 405, 425, 446,
              467, 488, 510, 532, 555, 578, 601, 625, 650, 675, 701, 727,
              754, 782, 810, 840, 870, 901, 933, 966, 1000>>

\* atan(b/a) for 0 <= b <= a, a > 0: the largest whole degree not above it
AtanOctant(b, a) ==
    CHOOSE d \in 0..45 :
        /\ TanMilli[d+1] * a <= 1000 * b
        /\ \A e \in (d+1)..45 : TanMilli[e+1] * a > 1000 * b

AtanQuadrant(ay, ax) ==
    IF ay = 0 THEN 0
    ELSE IF ax >= ay THEN AtanOctant(ay, ax)
    ELSE 90 - AtanOctant(ax, ay)

Atan2Deg(y, x) ==
    LET q == AtanQuadrant(Abs(y), Abs(x))
        t == IF x >= 0 THEN q ELSE 180 - q
    IN  IF y < 0 THEN -t ELSE t

\* points are <<x, y>>: Python index 0 is [1], index 1 is [2]
calculate_angle(a, b, c) ==
    LET ang == Atan2Deg(c[2] - b[2], c[1] - b[1])
               - Atan2Deg(a[2] - b[2], a[1] - b[1])
    IN  IF ang < 0 THEN ang + 360 ELSE ang

(***************************************************************************)
(* calculate_angle and angle_between_points on float64 coordinates.        *)
(* A point is <<x, y, t>>: x and y are whole pixels and, where y = 0, the  *)
(* ordinate is t * 2^-60 pixel (a float64 holds such a value next to 0     *)
(* only).  A bearing of t * 2^-60 / dx radians is far below half the       *)
(* spacing of the float64 values next to 360 (2^-44 degrees).              *)
(***************************************************************************)
Sign(x) == IF x > 0 THEN 1 ELSE IF x < 0 THEN -1 ELSE 0

\* the vector from b to p: <<dx, dy, dt>>, dt counting 2^-60 pixel where dy = 0
Vec(p, b) ==
    <<p[1] - b[1], p[2] - b[2], IF p[2] = b[2] THEN p[3] - b[3] ELSE 0>>

\* math.atan2(dy, dx) of such a vector, to the whole degree: atan2 of a
\* sub-resolution ordinate is a sub-resolution bearing when dx > 0, rounds to
\* +-pi when dx < 0 and is +-pi/2 when dx = 0
Bearing64(v) ==
    IF v[2] # 0 \/ v[3] = 0 THEN Atan2Deg(v[2], v[1])
    ELSE IF v[1] > 0 THEN 0
    ELSE IF v[1] < 0 THEN 180 * Sign(v[3])
    ELSE 90 * Sign(v[3])

\* the sub-resolution part of that bearing as a fraction <<numerator, denominator>>
SubBearing(v) ==
    IF v[2] = 0 /\ v[3] # 0 /\ v[1] > 0 THEN <<v[3], v[1]>> ELSE <<0, 1>>

\* calculate_angle with the float64 addition of 360: ang + 360 rounds to 360.0
\* when ang is a negative sub-resolution difference of two bearings
calculate_angle_float64(a, b, c) ==
    LET ba == Vec(a, b)
        bc == Vec(c, b)
        ang == Bearing64(bc) - Bearing64(ba)
        sub == SubBearing(bc)[1] * SubBearing(ba)[2] - SubBearing(ba)[1] * SubBearing(bc)[2]
    IN  IF ang < 0 THEN ang + 360
        ELSE IF ang = 0 /\ ba[2] = 0 /\ bc[2] = 0 /\ sub < 0 THEN 360
        ELSE ang

\* the vector a float64 dot product and magnitude see: a sub-resolution
\* ordinate counts only when it is the whole vector
EffectiveVec(v) == IF v[1] = 0 /\ v[2] = 0 THEN <<0, v[3]>> ELSE <<v[1], v[2]>>

\* "nan": 0 / 0.0 in numpy arithmetic (a warning, no exception)
NaN == [nan |-> TRUE]

\* max(-1, min(1, cos_angle)): min(1, nan) is 1 because nan < 1 is false
clamp_cos(cos_angle) == IF cos_angle = NaN THEN [dot |-> 1, cross |-> 0] ELSE cos_angle

\* angle_between_points (src/utils.py).  The cosine dot / (mag_ba * mag_bc) of
\* two non-zero vectors is kept as the pair (dot, |cross|), of which
\* np.degrees(np.arccos(.)) is atan2(|cross|, dot)
angle_between_points(a, b, c) ==
    LET vec_ba == EffectiveVec(Vec(a, b))
        vec_bc == EffectiveVec(Vec(c, b))
        dot_product == vec_ba[1] * vec_bc[1] + vec_ba[2] * vec_bc[2]
        mag_ba_sq == vec_ba[1] * vec_ba[1] + vec_ba[2] * vec_ba[2]
        mag_bc_sq == vec_bc[1] * vec_bc[1] + vec_bc[2] * vec_bc[2]
        cos_angle == IF mag_ba_sq * mag_bc_sq = 0 THEN NaN
                     ELSE [dot |-> dot_product,
                           cross |-> Abs(vec_ba[1] * vec_bc[2] - vec_ba[2] * vec_bc[1])]
        clamped == clamp_cos(cos_angle)
    IN  Atan2Deg(clamped.cross, clamped.dot)

(***************************************************************************)
(* Pose landmarks: None, or an object whose .landmark is a list of         *)
(* [x, y, visibility].  Python index i is position i+1.                    *)
(***************************************************************************)
LEFT_SHOULDER == 11
RIGHT_SHOULDER == 12
LEFT_ELBOW == 13
RIGHT_ELBOW == 14
LEFT_WRIST == 15
RIGHT_WRIST == 16
LEFT_HIP == 23
RIGHT_HIP == 24
LEFT_KNEE == 25
RIGHT_KNEE == 26
LEFT_ANKLE == 27
RIGHT_ANKLE == 28
JointIndices == {LEFT_SHOULDER, RIGHT_SHOULDER, LEFT_ELBOW, RIGHT_ELBOW,
                 LEFT_WRIST, RIGHT_WRIST, LEFT_HIP, RIGHT_HIP, LEFT_KNEE,
                 RIGHT_KNEE, LEFT_ANKLE, RIGHT_ANKLE}

VISIBILITY_THRESHOLD == 50      \* 0.5, in hundredths

Sentinel == <<0, 0>>

\* get_landmark_safely taking a visibility of exactly 0.5 for undetected
get_landmark_safely_strict(landmarks, landmark_idx, w, h) ==
    IF landmark_idx >= Len(landmarks.landmark) THEN Sentinel
    ELSE LET landmark == landmarks.landmark[landmark_idx + 1]
         IN  IF landmark.visibility <= VISIBILITY_THRESHOLD THEN Sentinel
             ELSE <<(landmark.x * w) \div Unit, (landmark.y * h) \div Unit>>

\* get_landmark_safely, with the enclosing landmarks, w and h made parameters
get_landmark_safely(landmarks, landmark_idx, w, h) ==
    IF landmark_idx >= Len(landmarks.landmark) THEN Sentinel
    ELSE LET landmark == landmarks.landmark[landmark_idx + 1]
         IN  IF landmark.visibility < VISIBILITY_THRESHOLD THEN Sentinel
             ELSE <<(landmark.x * w) \div Unit, (landmark.y * h) \div Unit>>

Raise(e) == [raise |-> e]
IsRaise(v) == "raise" \in DOMAIN v

\* the body of the try block of extract_biomechanics: a measurement record,
\* None, or the exception the body raises
extract_biomechanics_try(landmarks, shape) ==
    IF landmarks = None THEN None
    ELSE
    LET h == shape[1]
        w == shape[2]
        left_shoulder  == get_landmark_safely(landmarks, LEFT_SHOULDER, w, h)
        right_shoulder == get_landmark_safely(landmarks, RIGHT_SHOULDER, w, h)
        left_elbow     == get_landmark_safely(landmarks, LEFT_ELBOW, w, h)
        right_elbow    == get_landmark_safely(landmarks, RIGHT_ELBOW, w, h)
        left_wrist     == get_landmark_safely(landmarks, LEFT_WRIST, w, h)
        right_wrist    == get_landmark_safely(landmarks, RIGHT_WRIST, w, h)
        left_hip       == get_landmark_safely(landmarks, LEFT_HIP, w, h)
        right_hip      == get_landmark_safely(landmarks, RIGHT_HIP, w, h)
        left_knee      == get_landmark_safely(landmarks, LEFT_KNEE, w, h)
        right_knee     == get_landmark_safely(landmarks, RIGHT_KNEE, w, h)
        left_ankle     == get_landmark_safely(landmarks, LEFT_ANKLE, w, h)
        right_ankle    == get_landmark_safely(landmarks, RIGHT_ANKLE, w, h)
        bowling_arm_angle == calculate_angle(right_shoulder, right_elbow, right_wrist)
        shoulder_rotation == Atan2Deg(right_shoulder[2] - left_shoulder[2],
                                      right_shoulder[1] - left_shoulder[1])
        hip_alignment == Atan2Deg(right_hip[2] - left_hip[2],
                                  right_hip[1] - left_hip[1])
    IN  IF h = 0 \/ w = 0 THEN Raise("ZeroDivisionError")
        ELSE
        [ arm_angle |-> bowling_arm_angle,
          wrist_angle |-> 180 - Abs(bowling_arm_angle - 180),
          trunk_angle |-> Atan2Deg(Abs(right_shoulder[1] - right_hip[1]),
                                   Abs(right_shoulder[2] - right_hip[2])),
          front_knee_angle |-> calculate_angle(left_hip, left_knee, left_ankle),
          back_knee_angle |-> calculate_angle(right_hip, right_knee, right_ankle),
          shoulder_rotation |-> shoulder_rotation,
          hip_shoulder_separation |-> Abs(shoulder_rotation - hip_alignment),
          release_point_height |-> (right_wrist[2] * 100) \div h,
          release_point_horizontal |-> (right_wrist[1] * 100) \div w,
          shoulder_coordinates |-> [left |-> left_shoulder, right |-> right_shoulder],
          elbow_coordinates |-> [left |-> left_elbow, right |-> right_elbow],
          wrist_coordinates |-> [left |-> left_wrist, right |-> right_wrist] ]

\* extract_biomechanics without its outer try/except
extract_biomechanics_unguarded(landmarks, shape) ==
    extract_biomechanics_try(landmarks, shape)

\* extract_biomechanics with a warm-up: no measurement for the first frame
\* extracted of a video, whichever frame that is
extract_biomechanics_warmup(landmarks, shape) ==
    LET r == extract_biomechanics_try(landmarks, shape)
    IN  IF IsRaise(r) THEN None
        ELSE IF \A k \in 1..Len(processed_results) : "pending" \in DOMAIN processed_results[k]
        THEN None
        ELSE r

extract_biomechanics(landmarks, shape) ==
    LET r == extract_biomechanics_try(landmarks, shape)
    IN  IF IsRaise(r) THEN None ELSE r

\* the fields of a measurement record whose values are int or float
ScalarFields == {"arm_angle", "wrist_angle", "trunk_angle", "front_knee_angle",
                 "back_knee_angle", "shoulder_rotation", "hip_shoulder_separation",
                 "release_point_height", "release_point_horizontal"}

(***************************************************************************)
(* extract_time_series_data                                                *)
(***************************************************************************)
\* truth value of a dict-or-None: None and {} are false
Truthy(d) == d # None /\ DOMAIN d # {}

Get(d, k, default) == IF k \in DOMAIN d THEN d[k] ELSE default

\* one pass of the loop body with a zero placeholder for a frame without a record
time_series_step_zero_fill(time_series, result) ==
    IF Truthy(result.biomechanics)
    THEN LET b == result.biomechanics
             keys == DOMAIN b \cap ScalarFields
         IN  [k \in DOMAIN time_series \cup keys |->
                 IF k \in keys THEN Append(Get(time_series, k, <<>>), b[k])
                 ELSE time_series[k]]
    ELSE [k \in DOMAIN time_series \cup ScalarFields |->
             Append(Get(time_series, k, <<>>), 0)]

\* one pass of the loop body: time_series[key].append(value) for scalar values
time_series_step(time_series, result) ==
    IF Truthy(result.biomechanics)
    THEN LET b == result.biomechanics
             keys == DOMAIN b \cap ScalarFields
         IN  [k \in DOMAIN time_series \cup keys |->
                 IF k \in keys THEN Append(Get(time_series, k, <<>>), b[k])
                 ELSE time_series[k]]
    ELSE time_series

RECURSIVE time_series_loop(_, _)
time_series_loop(results, time_series) ==
    IF results = <<>> THEN time_series
    ELSE time_series_loop(Tail(results), time_series_step(time_series, Head(results)))

extract_time_series_data(results) == time_series_loop(results, EmptyDict)

(***************************************************************************)
(* identify_bowling_phases                                                 *)
(***************************************************************************)
PhaseNames == {"Run-up", "Loading", "Delivery Stride", "Release", "Follow Through"}

NoPhases == [p \in PhaseNames |-> NoneInt]

RUN_UP_MIN_FRAMES == 5          \* len(arm_angles) > 5
RUN_UP_POSITION == 2            \* arm_angles[2]
FOLLOW_THROUGH_OFFSET == 3      \* release position + 3
FULL_EXTENSION == 180           \* degrees

\* 0-based frame indices whose result carries a biomechanics value
valid_frames(results) ==
    SelectSeq([i \in 1..Len(results) |-> i - 1],
              LAMBDA i : results[i + 1].biomechanics # None)

\* (frame index, value of field) for the valid frames carrying both angles
angle_pairs(results, field) ==
    LET usable == SelectSeq(valid_frames(results),
                    LAMBDA i : LET b == results[i + 1].biomechanics
                               IN  /\ Truthy(b)
                                   /\ "arm_angle" \in DOMAIN b
                                   /\ "trunk_angle" \in DOMAIN b)
    IN  [k \in 1..Len(usable) |-> <<usable[k], results[usable[k] + 1].biomechanics[field]>>]

\* position (0-based) of the first pair closest to full extension
release_position(arm_angles) ==
    LET dev == [k \in 1..Len(arm_angles) |-> Abs(arm_angles[k][2] - FULL_EXTENSION)]
    IN  FirstIndex(dev, MinSeq(dev))

\* the frame at position 5 instead of position 2
run_up_phase_late(arm_angles) ==
    IF Len(arm_angles) > RUN_UP_MIN_FRAMES THEN arm_angles[RUN_UP_MIN_FRAMES + 1][1]
    ELSE NoneInt

\* the third pair from five pairs on instead of from six
run_up_phase_five(arm_angles) ==
    IF Len(arm_angles) >= RUN_UP_MIN_FRAMES THEN arm_angles[RUN_UP_POSITION + 1][1]
    ELSE NoneInt

\* frame 0 as a default when too few frames are measured
run_up_phase_default(arm_angles) ==
    IF Len(arm_angles) > RUN_UP_MIN_FRAMES THEN arm_angles[RUN_UP_POSITION + 1][1]
    ELSE 0

run_up_phase(arm_angles) ==
    IF Len(arm_angles) > RUN_UP_MIN_FRAMES THEN arm_angles[RUN_UP_POSITION + 1][1]
    ELSE NoneInt

\* index of the frame after the largest change instead of the frame before it
loading_phase_after(trunk_angles) ==
    LET changes == [i \in 1..(Len(trunk_angles) - 1) |->
                        Abs(trunk_angles[i + 1][2] - trunk_angles[i][2])]
    IN  IF Len(changes) > 0
        THEN LET idx == FirstIndex(changes, MaxSeq(changes))
             IN  IF idx > 0 THEN trunk_angles[idx + 2][1] ELSE NoneInt
        ELSE NoneInt

\* the first transition left out of the search instead of discarded afterwards
loading_phase_skip_first(trunk_angles) ==
    LET changes == [i \in 1..(Len(trunk_angles) - 1) |->
                        Abs(trunk_angles[i + 1][2] - trunk_angles[i][2])]
    IN  IF Len(changes) > 1
        THEN LET idx == FirstIndex(Tail(changes), MaxSeq(Tail(changes))) + 1
             IN  trunk_angles[idx + 1][1]
        ELSE NoneInt

loading_phase(trunk_angles) ==
    LET trunk_angle_changes == [i \in 1..(Len(trunk_angles) - 1) |->
                                   Abs(trunk_angles[i + 1][2] - trunk_angles[i][2])]
    IN  IF Len(trunk_angle_changes) > 0
        THEN LET max_trunk_change_idx ==
                     FirstIndex(trunk_angle_changes, MaxSeq(trunk_angle_changes))
             IN  IF max_trunk_change_idx > 0
                 THEN trunk_angles[max_trunk_change_idx + 1][1]
                 ELSE NoneInt
        ELSE NoneInt

\* the largest increase instead of the largest decrease
delivery_stride_phase_max(arm_angles) ==
    LET changes == [i \in 1..(Len(arm_angles) - 1) |->
                        arm_angles[i + 1][2] - arm_angles[i][2]]
    IN  IF Len(changes) > 0
        THEN LET idx == FirstIndex(changes, MaxSeq(changes))
             IN  IF idx > 0 THEN arm_angles[idx + 1][1] ELSE NoneInt
        ELSE NoneInt

delivery_stride_phase(arm_angles) ==
    LET arm_angle_changes == [i \in 1..(Len(arm_angles) - 1) |->
                                 arm_angles[i + 1][2] - arm_angles[i][2]]
    IN  IF Len(arm_angle_changes) > 0
        THEN LET min_arm_change_idx ==
                     FirstIndex(arm_angle_changes, MinSeq(arm_angle_changes))
             IN  IF min_arm_change_idx > 0
                 THEN arm_angles[min_arm_change_idx + 1][1]
                 ELSE NoneInt
        ELSE NoneInt

\* a tie-break that depends on the run: the first of the closest pairs on the
\* first run, the last of them afterwards
release_phase_unstable(arm_angles) ==
    LET dev == [k \in 1..Len(arm_angles) |-> Abs(arm_angles[k][2] - FULL_EXTENSION)]
        closest == {k \in 1..Len(arm_angles) : dev[k] = MinSeq(dev)}
    IN  IF ran["identify_bowling_phases"] = 0
        THEN arm_angles[CHOOSE k \in closest : \A j \in closest : k <= j][1]
        ELSE arm_angles[CHOOSE k \in closest : \A j \in closest : k >= j][1]

\* the last of the pairs closest to full extension instead of the first
release_phase_last(arm_angles) ==
    LET dev == [k \in 1..Len(arm_angles) |-> Abs(arm_angles[k][2] - FULL_EXTENSION)]
        closest == {k \in 1..Len(arm_angles) : dev[k] = MinSeq(dev)}
    IN  arm_angles[CHOOSE k \in closest : \A j \in closest : k >= j][1]

release_phase(arm_angles) == arm_angles[release_position(arm_angles) + 1][1]

\* three frame indices after Release instead of three positions in arm_angles
follow_through_phase_by_frame(arm_angles, release) ==
    IF release # NoneInt
       /\ \E k \in 1..Len(arm_angles) : arm_angles[k][1] = release + FOLLOW_THROUGH_OFFSET
    THEN release + FOLLOW_THROUGH_OFFSET
    ELSE NoneInt

\* release_idx_in_list[0] + 3 < len(arm_angles); frame indices are unique in
\* arm_angles, so the first position holding Release is release_position
follow_through_phase(arm_angles, release) ==
    LET release_idx_in_list ==
            SelectSeq([k \in 1..Len(arm_angles) |-> k - 1],
                      LAMBDA k : arm_angles[k + 1][1] = release)
    IN  IF /\ release # NoneInt
           /\ release_idx_in_list # <<>>
           /\ release_idx_in_list[1] + FOLLOW_THROUGH_OFFSET < Len(arm_angles)
        THEN arm_angles[release_idx_in_list[1] + FOLLOW_THROUGH_OFFSET + 1][1]
        ELSE NoneInt

identify_bowling_phases(results) ==
    IF results = <<>> THEN NoPhases
    ELSE IF valid_frames(results) = <<>> THEN NoPhases
    ELSE
    LET arm_angles == angle_pairs(results, "arm_angle")
        trunk_angles == angle_pairs(results, "trunk_angle")
    IN  IF arm_angles = <<>> \/ trunk_angles = <<>> THEN NoPhases
        ELSE LET release == release_phase(arm_angles)
             IN  [p \in PhaseNames |->
                    CASE p = "Run-up" -> run_up_phase(arm_angles)
                      [] p = "Loading" -> loading_phase(trunk_angles)
                      [] p = "Delivery Stride" -> delivery_stride_phase(arm_angles)
                      [] p = "Release" -> release
                      [] p = "Follow Through" -> follow_through_phase(arm_angles, release)]

(***************************************************************************)
(* numpy reductions over a series of whole degrees, in fixed point         *)
(***************************************************************************)
Fixed(x) == x * Scale

RECURSIVE ISqrtSearch(_, _, _)
ISqrtSearch(n, lo, hi) ==
    IF lo >= hi THEN lo
    ELSE LET mid == (lo + hi + 1) \div 2
         IN  IF mid * mid <= n THEN ISqrtSearch(n, mid, hi)
             ELSE ISqrtSearch(n, lo, mid - 1)

\* the largest r with r*r <= n (n < 2^30)
ISqrt(n) == ISqrtSearch(n, 0, 32767)

\* np.mean
np_mean(series) == (SumSeq(series) * Scale) \div Len(series)

\* np.std (population standard deviation)
np_std(series) ==
    LET n == Len(series)
        squares == [i \in 1..n |-> series[i] * series[i]]
        v == n * SumSeq(squares) - SumSeq(series) * SumSeq(series)
    IN  ISqrt(v * Scale * Scale) \div n

\* np.max
np_max(series) == Fixed(MaxSeq(series))

\* np.argmin(np.abs(arm_angles - 180)): the first minimum, 0-based
np_argmin_dev(series) ==
    LET dev == [i \in 1..Len(series) |-> Abs(series[i] - FULL_EXTENSION)]
    IN  FirstIndex(dev, MinSeq(dev))

(***************************************************************************)
(* Score components, shared by calculate_performance_metrics and           *)
(* calculate_technical_score.  m maps metric names to fixed-point values.  *)
(***************************************************************************)
arm_angle_score(m) ==
    Fixed(100) - Min2(Abs(m["Arm Angle at Release"] - Fixed(FULL_EXTENSION)) * 2, Fixed(100))

hip_shoulder_score(m) ==
    Min2((m["Max Hip-Shoulder Separation"] * 3) \div 2, Fixed(100))

trunk_stability_score(m) ==
    Max2(Fixed(100) - m["Trunk Stability"] * 5, 0)

KNEE_IDEAL_LOW == 140
KNEE_IDEAL_HIGH == 160
KNEE_IDEAL == 150

knee_score(m) ==
    LET knee_angle == m["Front Knee Angle"]
    IN  IF Fixed(KNEE_IDEAL_LOW) <= knee_angle /\ knee_angle <= Fixed(KNEE_IDEAL_HIGH)
        THEN Fixed(100)
        ELSE Fixed(100) - Min2(Abs(knee_angle - Fixed(KNEE_IDEAL)) * 2, Fixed(100))

\* the three components calculate_performance_metrics averages
efficiency_components(m) ==
    (IF "Arm Angle at Release" \in DOMAIN m THEN <<arm_angle_score(m)>> ELSE <<>>)
    \o (IF "Max Hip-Shoulder Separation" \in DOMAIN m THEN <<hip_shoulder_score(m)>> ELSE <<>>)
    \o (IF "Trunk Stability" \in DOMAIN m THEN <<trunk_stability_score(m)>> ELSE <<>>)

\* the four components calculate_technical_score averages
technical_components(m) ==
    efficiency_components(m)
    \o (IF "Front Knee Angle" \in DOMAIN m THEN <<knee_score(m)>> ELSE <<>>)

\* np.mean of a list of fixed-point values
mean_fixed(components) == SumSeq(components) \div Len(components)

(***************************************************************************)
(* calculate_performance_metrics                                           *)
(***************************************************************************)
\* dict update: d with key k bound to v
Put(d, k, v) == [x \in DOMAIN d \cup {k} |-> IF x = k THEN v ELSE d[x]]

release_frame_metrics(results) ==
    LET release_frame == identify_bowling_phases(results)["Release"]
    IN  IF release_frame # NoneInt /\ 0 <= release_frame /\ release_frame < Len(results)
        THEN LET release_biomechanics == results[release_frame + 1].biomechanics
             IN  IF Truthy(release_biomechanics)
                 THEN [k \in {"Arm Angle at Release", "Wrist Angle at Release", "Release Height"} |->
                        CASE k = "Arm Angle at Release" ->
                                Fixed(Get(release_biomechanics, "arm_angle", 0))
                          [] k = "Wrist Angle at Release" ->
                                Fixed(Get(release_biomechanics, "wrist_angle", 0))
                          [] k = "Release Height" ->
                                Fixed(Get(release_biomechanics, "release_point_height", 0))]
                 ELSE EmptyDict
        ELSE EmptyDict

series_metrics(data, m0) ==
    LET m1 == IF /\ "Arm Angle at Release" \notin DOMAIN m0
                 /\ "arm_angle" \in DOMAIN data
                 /\ Len(data["arm_angle"]) > 0
              THEN Put(m0, "Arm Angle at Release",
                       Fixed(data["arm_angle"][np_argmin_dev(data["arm_angle"]) + 1]))
              ELSE m0
        m2 == IF "arm_angle" \in DOMAIN data
              THEN Put(m1, "Arm Angle Consistency", np_std(data["arm_angle"]))
              ELSE m1
        m3 == IF "trunk_angle" \in DOMAIN data
              THEN Put(Put(m2, "Max Trunk Angle", np_max(data["trunk_angle"])),
                       "Trunk Stability", np_std(data["trunk_angle"]))
              ELSE m2
        m4 == IF "hip_shoulder_separation" \in DOMAIN data
              THEN Put(m3, "Max Hip-Shoulder Separation",
                       np_max(data["hip_shoulder_separation"]))
              ELSE m3
    IN  IF "front_knee_angle" \in DOMAIN data
        THEN Put(m4, "Front Knee Angle", np_mean(data["front_knee_angle"]))
        ELSE m4

calculate_performance_metrics(data, results) ==
    IF ~Truthy(data) \/ results = <<>> THEN None
    ELSE LET m == series_metrics(data, release_frame_metrics(results))
         IN  IF efficiency_components(m) # <<>>
             THEN Put(m, "Technical Efficiency", mean_fixed(efficiency_components(m)))
             ELSE m

(***************************************************************************)
(* calculate_technical_score                                               *)
(***************************************************************************)
calculate_technical_score(m) ==
    IF ~Truthy(m) THEN 0
    ELSE IF "Technical Efficiency" \in DOMAIN m THEN PyInt(m["Technical Efficiency"])
    ELSE IF technical_components(m) # <<>> THEN PyInt(mean_fixed(technical_components(m)))
    ELSE 0

(***************************************************************************)
(* generate_suggestions: improvement area -> which advice is given         *)
(***************************************************************************)
ARM_TOLERANCE == 20
TRUNK_LOW == 30
TRUNK_HIGH == 60
SEPARATION_LOW == 30
KNEE_LOW == 140
KNEE_HIGH == 170
CONSISTENCY_HIGH == 20

arm_rule(m) ==
    IF "Arm Angle at Release" \in DOMAIN m
       /\ Abs(m["Arm Angle at Release"] - Fixed(FULL_EXTENSION)) > Fixed(ARM_TOLERANCE)
    THEN [a \in {"Arm Action"} |->
            IF m["Arm Angle at Release"] < Fixed(FULL_EXTENSION)
            THEN "bending too early" ELSE "extending beyond vertical"]
    ELSE EmptyDict

\* the trunk rule with the limits of the band counted as outside it
trunk_rule_inclusive(m) ==
    IF "Max Trunk Angle" \in DOMAIN m /\ m["Max Trunk Angle"] <= Fixed(TRUNK_LOW)
    THEN [a \in {"Trunk Position"} |-> "too upright"]
    ELSE IF "Max Trunk Angle" \in DOMAIN m /\ m["Max Trunk Angle"] >= Fixed(TRUNK_HIGH)
    THEN [a \in {"Trunk Position"} |-> "leaning too far forward"]
    ELSE EmptyDict

trunk_rule(m) ==
    IF "Max Trunk Angle" \in DOMAIN m /\ m["Max Trunk Angle"] < Fixed(TRUNK_LOW)
    THEN [a \in {"Trunk Position"} |-> "too upright"]
    ELSE IF "Max Trunk Angle" \in DOMAIN m /\ m["Max Trunk Angle"] > Fixed(TRUNK_HIGH)
    THEN [a \in {"Trunk Position"} |-> "leaning too far forward"]
    ELSE EmptyDict

separation_rule(m) ==
    IF "Max Hip-Shoulder Separation" \in DOMAIN m
       /\ m["Max Hip-Shoulder Separation"] < Fixed(SEPARATION_LOW)
    THEN [a \in {"Hip-Shoulder Rotation"} |-> "increase separation"]
    ELSE EmptyDict

knee_rule(m) ==
    IF "Front Knee Angle" \in DOMAIN m /\ m["Front Knee Angle"] < Fixed(KNEE_LOW)
    THEN [a \in {"Front Leg"} |-> "bending too much"]
    ELSE IF "Front Knee Angle" \in DOMAIN m /\ m["Front Knee Angle"] > Fixed(KNEE_HIGH)
    THEN [a \in {"Front Leg"} |-> "too straight"]
    ELSE EmptyDict

consistency_rule(m) ==
    IF "Arm Angle Consistency" \in DOMAIN m
       /\ m["Arm Angle Consistency"] > Fixed(CONSISTENCY_HIGH)
    THEN [a \in {"Consistency"} |-> "significant variation"]
    ELSE EmptyDict

Merge(d1, d2) == [k \in DOMAIN d1 \cup DOMAIN d2 |-> IF k \in DOMAIN d2 THEN d2[k] ELSE d1[k]]

specific_suggestions(m) ==
    Merge(Merge(Merge(Merge(arm_rule(m), trunk_rule(m)), separation_rule(m)),
                knee_rule(m)), consistency_rule(m))

GeneralSuggestion == [a \in {"General"} |-> "technique looks good"]

\* generate_suggestions without the final General entry
generate_suggestions_no_general(m) ==
    IF ~Truthy(m) THEN EmptyDict ELSE specific_suggestions(m)

\* generate_suggestions without its first guard: the General entry for an
\* empty mapping, a TypeError for None
generate_suggestions_unguarded(m) ==
    IF m = None THEN Raise("TypeError")
    ELSE IF DOMAIN specific_suggestions(m) = {} THEN GeneralSuggestion
    ELSE specific_suggestions(m)

generate_suggestions(m) ==
    IF ~Truthy(m) THEN EmptyDict
    ELSE IF DOMAIN specific_suggestions(m) = {} THEN GeneralSuggestion
    ELSE specific_suggestions(m)

(***************************************************************************)
(* Inputs of the recording page: what the pose detector answers for a      *)
(* frame, and the shape of the frames.                                     *)
(***************************************************************************)
\* joint positions of two poses, in units of 1/Unit of the frame; visibilities
\* are 90 (detected), 50 (exactly the threshold) and 30 (undetected)
PoseStraight(i) ==
    CASE i = LEFT_SHOULDER -> <<1, 1>>  [] i = RIGHT_SHOULDER -> <<2, 1>>
      [] i = LEFT_ELBOW -> <<1, 2>>     [] i = RIGHT_ELBOW -> <<3, 1>>
      [] i = LEFT_WRIST -> <<1, 3>>     [] i = RIGHT_WRIST -> <<4, 1>>
      [] i = LEFT_HIP -> <<1, 2>>       [] i = RIGHT_HIP -> <<2, 2>>
      [] i = LEFT_KNEE -> <<1, 3>>      [] i = RIGHT_KNEE -> <<2, 3>>
      [] i = LEFT_ANKLE -> <<1, 4>>     [] i = RIGHT_ANKLE -> <<2, 4>>
      [] OTHER -> <<2, 0>>

PoseBent(i) ==
    CASE i = LEFT_SHOULDER -> <<1, 1>>  [] i = RIGHT_SHOULDER -> <<2, 1>>
      [] i = LEFT_ELBOW -> <<1, 2>>     [] i = RIGHT_ELBOW -> <<3, 1>>
      [] i = LEFT_WRIST -> <<1, 3>>     [] i = RIGHT_WRIST -> <<3, 0>>
      [] i = LEFT_HIP -> <<2, 3>>       [] i = RIGHT_HIP -> <<1, 2>>
      [] i = LEFT_KNEE -> <<3, 3>>      [] i = RIGHT_KNEE -> <<1, 3>>
      [] i = LEFT_ANKLE -> <<3, 4>>     [] i = RIGHT_ANKLE -> <<2, 4>>
      [] OTHER -> <<2, 0>>

Landmarks(pose, n, dim) ==
    [landmark |-> [k \in 1..n |->
        [x |-> IF pose = "straight" THEN PoseStraight(k - 1)[1] ELSE PoseBent(k - 1)[1],
         y |-> IF pose = "straight" THEN PoseStraight(k - 1)[2] ELSE PoseBent(k - 1)[2],
         visibility |-> dim[k - 1]]]]

AllJoints(v) == [i \in 0..(NumLandmarks - 1) |-> v]

LandmarkInputs ==
    { None,
      Landmarks("straight", NumLandmarks, AllJoints(90)),
      Landmarks("bent", NumLandmarks, AllJoints(VISIBILITY_THRESHOLD)),
      Landmarks("straight", NumLandmarks, AllJoints(30)),
      Landmarks("bent", NumLandmarks,
                [AllJoints(90) EXCEPT ![RIGHT_ELBOW] = 30]),
      Landmarks("straight", RIGHT_HIP, AllJoints(90)) }

\* (height, width)
ShapeInputs == { <<4, 8>>, <<0, 8>>, <<4, 0>> }

(***************************************************************************)
(* The recording page ("Process Video") and the analysis page of app.py    *)
(***************************************************************************)
Init ==
    /\ pc = "record"
    /\ frame_shape = <<0, 0>>
    /\ processed_results = <<>>
    /\ biomechanics_data = None
    /\ phases = NoPhases
    /\ metrics = None
    /\ score = NoneInt
    /\ suggestions = EmptyDict
    /\ error = ""
    /\ points = <<>>
    /\ angle = NoneInt
    /\ vector_angle = NoneInt
    /\ ran = NeverRan
    /\ frames = <<>>
    /\ UtilitiesIdle

\* the videos: a frame is what process_frame answers for it
VideoInputs == UNION { [1..n -> LandmarkInputs] : n \in 1..MaxVideoFrames }

\* the loop body with a frame without a pose treated as an error
frame_result_strict(landmarks, shape) ==
    IF landmarks = None THEN Raise("ValueError")
    ELSE [landmarks |-> landmarks, biomechanics |-> extract_biomechanics(landmarks, shape)]

\* the entry the loop body appends for a frame, or the exception it raises
frame_result(landmarks, shape) ==
    LET biomechanics == IF landmarks # None THEN extract_biomechanics(landmarks, shape)
                        ELSE None
    IN  IF IsRaise(biomechanics) THEN biomechanics
        ELSE [landmarks |-> landmarks, biomechanics |-> biomechanics]

\* extract_frames answered a non-empty list of frames of one shape
StartVideo(shape, video) ==
    /\ pc = "record"
    /\ pc' = "processing"
    /\ frame_shape' = shape
    /\ frames' = video
    /\ processed_results' = <<>>
    /\ UNCHANGED <<biomechanics_data, phases, metrics, score, suggestions, error>>
    /\ UNCHANGED <<geometry_vars, ran>>
    /\ UNCHANGED utility_vars

\* one pass of the loop over the frames
ProcessFrame ==
    /\ pc = "processing"
    /\ Len(processed_results) < Len(frames)
    /\ LET result == frame_result(frames[Len(processed_results) + 1], frame_shape)
       IN  IF IsRaise(result)
           THEN /\ error' = result.raise
                /\ pc' = "record"
                /\ UNCHANGED processed_results
           ELSE /\ processed_results' = Append(processed_results, result)
                /\ UNCHANGED <<pc, error>>
    /\ UNCHANGED <<frame_shape, biomechanics_data, phases, metrics, score, suggestions>>
    /\ UNCHANGED <<geometry_vars, ran, frames>>
    /\ UNCHANGED utility_vars

\* steps 3 to 7 after the loop: the session becomes the current session
FinishVideo ==
    /\ pc = "processing"
    /\ Len(processed_results) = Len(frames)
    /\ biomechanics_data' = extract_time_series_data(processed_results)
    /\ pc' = "analyze"
    /\ UNCHANGED <<frame_shape, processed_results, phases, metrics, score, suggestions, error>>
    /\ UNCHANGED <<geometry_vars, ran, frames>>
    /\ UNCHANGED utility_vars

\* the tabs of the analysis page
AnalyzePage ==
    /\ pc = "analyze"
    /\ phases' = identify_bowling_phases(processed_results)
    /\ LET m == calculate_performance_metrics(biomechanics_data, processed_results)
           s == generate_suggestions(m)
       IN  /\ metrics' = m
           /\ score' = IF Truthy(m) THEN calculate_technical_score(m) ELSE score
           /\ IF IsRaise(s)
              THEN error' = s.raise /\ UNCHANGED suggestions
              ELSE suggestions' = s /\ UNCHANGED error
    /\ pc' = "analyzed"
    /\ UNCHANGED <<frame_shape, processed_results, biomechanics_data>>
    /\ UNCHANGED <<geometry_vars, ran, frames>>
    /\ UNCHANGED utility_vars

Next ==
    \/ \E shape \in ShapeInputs, video \in VideoInputs : StartVideo(shape, video)
    \/ ProcessFrame
    \/ FinishVideo
    \/ AnalyzePage

Spec == Init /\ [][Next]_vars

(***************************************************************************)
(* The analysis functions applied to given inputs: a per-frame result      *)
(* sequence, or a metrics mapping handed to the scoring functions.         *)
(***************************************************************************)
\* a complete measurement record with the given scalars
Measurement(arm, trunk, knee, separation, height) ==
    [ arm_angle |-> arm,
      wrist_angle |-> 180 - Abs(arm - 180),
      trunk_angle |-> trunk,
      front_knee_angle |-> knee,
      back_knee_angle |-> 170,
      shoulder_rotation |-> separation,
      hip_shoulder_separation |-> separation,
      release_point_height |-> height,
      release_point_horizontal |-> 50,
      shoulder_coordinates |-> [left |-> <<1, 1>>, right |-> <<2, 1>>],
      elbow_coordinates |-> [left |-> <<1, 2>>, right |-> <<3, 1>>],
      wrist_coordinates |-> [left |-> <<1, 3>>, right |-> <<4, 1>>] ]

DetectedPose == [landmark |-> <<>>]

FrameResult(biomechanics) ==
    [landmarks |-> IF biomechanics = None THEN None ELSE DetectedPose,
     biomechanics |-> biomechanics]

FrameResultInputs ==
    { FrameResult(None),
      FrameResult(Measurement(180, 45, 150, 40, 20)),
      FrameResult(Measurement(170, 55, 175, 40, 30)),
      FrameResult(Measurement(100, 25, 100, 10, 60)) }

\* the 10-frame series of the end-to-end example; the trunk angle is 45 in
\* every frame but frame jump_at, where it is jump_to
ExampleArmAngles == <<90, 120, 150, 170, 180, 179, 150, 120, 100, 90>>

ExampleResults(jump_at, jump_to) ==
    [i \in 1..Len(ExampleArmAngles) |->
        FrameResult(Measurement(ExampleArmAngles[i],
                                IF i - 1 = jump_at THEN jump_to ELSE 45,
                                150, 40, 20))]

ExampleInputs ==
    { ExampleResults(j, v) : j \in 0..(Len(ExampleArmAngles) - 1), v \in {45, 55} }

\* the 10-frame series with no measurement in frame gap_at
GappedResults(gap_at) ==
    [i \in 1..Len(ExampleArmAngles) |->
        IF i - 1 = gap_at THEN FrameResult(None) ELSE ExampleResults(4, 55)[i]]

GappedInputs == { GappedResults(g) : g \in 0..(Len(ExampleArmAngles) - 1) }

ResultsInputs ==
    UNION { [1..n -> FrameResultInputs] : n \in 0..MaxSeqLen }
    \cup ExampleInputs \cup GappedInputs

\* metrics mappings with numeric values, in fixed point
MetricValueInputs == { Fixed(-10), Fixed(150), Fixed(180), Fixed(400) }

ScoredMetricNames == { "Arm Angle at Release", "Max Hip-Shoulder Separation",
                       "Trunk Stability", "Front Knee Angle" }

\* single-metric mappings with the value on a limit of the metric's band and
\* one tenth outside it, and mappings with every metric on a limit
BandMetricsInputs ==
    { [k \in {"Arm Angle at Release"} |-> v] :
          v \in { Fixed(160), Fixed(160) - 1, Fixed(200), Fixed(200) + 1 } }
    \cup { [k \in {"Max Trunk Angle"} |-> v] :
          v \in { Fixed(30), Fixed(30) - 1, Fixed(60), Fixed(60) + 1 } }
    \cup { [k \in {"Max Hip-Shoulder Separation"} |-> v] : v \in { Fixed(30), Fixed(30) - 1 } }
    \cup { [k \in {"Front Knee Angle"} |-> v] :
          v \in { Fixed(140), Fixed(140) - 1, Fixed(170), Fixed(170) + 1 } }
    \cup { [k \in {"Arm Angle Consistency"} |-> v] : v \in { Fixed(20), Fixed(20) + 1 } }
    \cup { [k \in {"Arm Angle at Release", "Max Trunk Angle", "Max Hip-Shoulder Separation",
                    "Front Knee Angle", "Arm Angle Consistency"} |->
               CASE k = "Arm Angle at Release" -> arm
                 [] k = "Max Trunk Angle" -> trunk
                 [] k = "Max Hip-Shoulder Separation" -> Fixed(30)
                 [] k = "Front Knee Angle" -> knee
                 [] OTHER -> Fixed(20)] :
            arm \in { Fixed(160), Fixed(200) }, trunk \in { Fixed(30), Fixed(60) },
            knee \in { Fixed(140), Fixed(170) } }

MetricsInputs ==
    UNION { [names -> MetricValueInputs] : names \in SUBSET ScoredMetricNames }
    \cup BandMetricsInputs
    \cup { [k \in {"Technical Efficiency"} |-> v] : v \in { Fixed(-5), Fixed(50), Fixed(150) } }
    \cup { [k \in {"Release Height"} |-> Fixed(50)],
           [k \in {"Max Trunk Angle", "Arm Angle Consistency"} |->
               IF k = "Max Trunk Angle" THEN Fixed(45) ELSE Fixed(5)],
           [k \in {"Max Trunk Angle", "Arm Angle Consistency"} |->
               IF k = "Max Trunk Angle" THEN Fixed(20) ELSE Fixed(25)] }

InitPure ==
    /\ pc = "input"
    /\ frame_shape = <<0, 0>>
    /\ processed_results \in ResultsInputs
    /\ biomechanics_data = None
    /\ phases = NoPhases
    /\ metrics = None
    /\ score = NoneInt
    /\ suggestions = EmptyDict
    /\ error = ""
    /\ points = <<>>
    /\ angle = NoneInt
    /\ vector_angle = NoneInt
    /\ ran = NeverRan
    /\ frames = <<>>
    /\ UtilitiesIdle

ApplyExtractTimeSeries ==
    /\ pc = "input"
    /\ biomechanics_data' = extract_time_series_data(processed_results)
    /\ pc' = "series"
    /\ UNCHANGED <<frame_shape, processed_results, phases, metrics, score, suggestions, error>>
    /\ UNCHANGED <<geometry_vars, ran, frames>>
    /\ UNCHANGED utility_vars

ApplyIdentifyPhases ==
    /\ pc = "series"
    /\ phases' = identify_bowling_phases(processed_results)
    /\ pc' = "phases"
    /\ UNCHANGED <<frame_shape, processed_results, biomechanics_data, metrics, score,
                   suggestions, error>>
    /\ UNCHANGED <<geometry_vars, ran, frames>>
    /\ UNCHANGED utility_vars

ApplyCalculateMetrics ==
    /\ pc = "phases"
    /\ metrics' = calculate_performance_metrics(biomechanics_data, processed_results)
    /\ pc' = "metrics"
    /\ UNCHANGED <<frame_shape, processed_results, biomechanics_data, phases, score,
                   suggestions, error>>
    /\ UNCHANGED <<geometry_vars, ran, frames>>
    /\ UNCHANGED utility_vars

\* a caller hands a metrics mapping of its own to the scoring functions
SupplyMetrics(m) ==
    /\ pc = "input"
    /\ processed_results = <<>>
    /\ metrics' = m
    /\ pc' = "metrics"
    /\ UNCHANGED <<frame_shape, processed_results, biomechanics_data, phases, score,
                   suggestions, error>>
    /\ UNCHANGED <<geometry_vars, ran, frames>>
    /\ UNCHANGED utility_vars

ApplyTechnicalScore ==
    /\ pc = "metrics"
    /\ score' = calculate_technical_score(metrics)
    /\ pc' = "score"
    /\ UNCHANGED <<frame_shape, processed_results, biomechanics_data, phases, metrics,
                   suggestions, error>>
    /\ UNCHANGED <<geometry_vars, ran, frames>>
    /\ UNCHANGED utility_vars

ApplyGenerateSuggestions ==
    /\ pc = "score"
    /\ LET s == generate_suggestions(metrics)
       IN  IF IsRaise(s)
           THEN error' = s.raise /\ UNCHANGED suggestions
           ELSE suggestions' = s /\ UNCHANGED error
    /\ pc' = "done"
    /\ UNCHANGED <<frame_shape, processed_results, biomechanics_data, phases, metrics, score>>
    /\ UNCHANGED <<geometry_vars, ran, frames>>
    /\ UNCHANGED utility_vars

NextPure ==
    \/ ApplyExtractTimeSeries
    \/ ApplyIdentifyPhases
    \/ ApplyCalculateMetrics
    \/ \E m \in MetricsInputs : SupplyMetrics(m)
    \/ ApplyTechnicalScore
    \/ ApplyGenerateSuggestions

SpecPure == InitPure /\ [][NextPure]_vars

(***************************************************************************)
(* The analysis functions applied to per-frame sequences whose measurement *)
(* records lack some of their fields (the functions test for the keys they *)
(* read).                                                                  *)
(***************************************************************************)
MaxPartialLen == 3      \* length of the per-frame sequences with partial records

\* record rec without the fields in keys
Without(rec, keys) == [k \in DOMAIN rec \ keys |-> rec[k]]

PartialResultInputs ==
    { FrameResult(None),
      FrameResult(Measurement(180, 45, 150, 40, 20)),
      FrameResult(Without(Measurement(170, 55, 175, 40, 30), {"trunk_angle"})),
      FrameResult(Without(Measurement(100, 25, 100, 10, 60), {"trunk_angle"})),
      FrameResult(Without(Measurement(170, 55, 175, 40, 30),
                          {"wrist_angle", "release_point_height"})),
      FrameResult(Without(Measurement(100, 25, 100, 10, 60),
                          {"front_knee_angle", "hip_shoulder_separation"})) }

InitPartial ==
    /\ pc = "input"
    /\ frame_shape = <<0, 0>>
    /\ processed_results \in UNION { [1..n -> PartialResultInputs] : n \in 0..MaxPartialLen }
    /\ biomechanics_data = None
    /\ phases = NoPhases
    /\ metrics = None
    /\ score = NoneInt
    /\ suggestions = EmptyDict
    /\ error = ""
    /\ points = <<>>
    /\ angle = NoneInt
    /\ vector_angle = NoneInt
    /\ ran = NeverRan
    /\ frames = <<>>
    /\ UtilitiesIdle

SpecPartial == InitPartial /\ [][NextPure]_vars

(***************************************************************************)
(* The angle functions applied to three given points.                      *)
(***************************************************************************)
MaxCoordinate == 2      \* pixel coordinates of the points are 0..MaxCoordinate

PointInputs ==
    { <<x, y, 0>> : x \in 0..MaxCoordinate, y \in 0..MaxCoordinate }
    \cup { <<x, 0, t>> : x \in 0..MaxCoordinate, t \in {-1, 1} }

InitAngle ==
    /\ pc = "points"
    /\ points \in PointInputs \X PointInputs \X PointInputs
    /\ angle = NoneInt
    /\ vector_angle = NoneInt
    /\ frame_shape = <<0, 0>>
    /\ processed_results = <<>>
    /\ biomechanics_data = None
    /\ phases = NoPhases
    /\ metrics = None
    /\ score = NoneInt
    /\ suggestions = EmptyDict
    /\ error = ""
    /\ ran = NeverRan
    /\ frames = <<>>
    /\ UtilitiesIdle

ApplyCalculateAngle ==
    /\ pc = "points"
    /\ angle' = calculate_angle_float64(points[1], points[2], points[3])
    /\ pc' = "angle"
    /\ UNCHANGED <<points, vector_angle, ran, frames>>
    /\ UNCHANGED <<frame_shape, processed_results, biomechanics_data, phases, metrics,
                   score, suggestions, error>>
    /\ UNCHANGED utility_vars

ApplyAngleBetweenPoints ==
    /\ pc = "angle"
    /\ vector_angle' = angle_between_points(points[1], points[2], points[3])
    /\ pc' = "angles"
    /\ UNCHANGED <<points, angle, ran, frames>>
    /\ UNCHANGED <<frame_shape, processed_results, biomechanics_data, phases, metrics,
                   score, suggestions, error>>
    /\ UNCHANGED utility_vars

NextAngle ==
    \/ ApplyCalculateAngle
    \/ ApplyAngleBetweenPoints

SpecAngle == InitAngle /\ [][NextAngle]_vars

(***************************************************************************)
(* The analysis page rerun: Streamlit runs the page script again on every  *)
(* interaction, and each run applies the analysis functions again to the   *)
(* per-frame sequence of the session.                                      *)
(***************************************************************************)
MaxRuns == 2            \* applications of each function
MaxRerunLen == 2        \* length of the free per-frame sequences rerun

RerunInputs ==
    UNION { [1..n -> FrameResultInputs] : n \in 0..MaxRerunLen } \cup ExampleInputs

InitRerun ==
    /\ pc = "rerun"
    /\ frame_shape = <<0, 0>>
    /\ processed_results \in RerunInputs
    /\ biomechanics_data = None
    /\ phases = NoPhases
    /\ metrics = None
    /\ score = NoneInt
    /\ suggestions = EmptyDict
    /\ error = ""
    /\ points = <<>>
    /\ angle = NoneInt
    /\ vector_angle = NoneInt
    /\ ran = NeverRan
    /\ frames = <<>>
    /\ UtilitiesIdle

\* one more application of function f
Ran(f) ==
    /\ ran[f] < MaxRuns
    /\ ran' = [ran EXCEPT ![f] = ran[f] + 1]

RunExtractTimeSeries ==
    /\ pc = "rerun"
    /\ Ran("extract_time_series_data")
    /\ biomechanics_data' = extract_time_series_data(processed_results)
    /\ UNCHANGED <<pc, frame_shape, processed_results, phases, metrics, score,
                   suggestions, error, geometry_vars, frames>>
    /\ UNCHANGED utility_vars

RunIdentifyPhases ==
    /\ pc = "rerun"
    /\ Ran("identify_bowling_phases")
    /\ phases' = identify_bowling_phases(processed_results)
    /\ UNCHANGED <<pc, frame_shape, processed_results, biomechanics_data, metrics, score,
                   suggestions, error, geometry_vars, frames>>
    /\ UNCHANGED utility_vars

\* calculate_performance_metrics with "arm_angles -= 180" for "arm_angles - 180":
\* the series of the time series passed in is shifted in place
RunCalculateMetrics_inplace ==
    /\ pc = "rerun"
    /\ ran["extract_time_series_data"] >= 1
    /\ Ran("calculate_performance_metrics")
    /\ metrics' = calculate_performance_metrics(biomechanics_data, processed_results)
    /\ biomechanics_data' =
          [k \in DOMAIN biomechanics_data |->
              IF k = "arm_angle"
              THEN [i \in 1..Len(biomechanics_data[k]) |->
                        biomechanics_data[k][i] - FULL_EXTENSION]
              ELSE biomechanics_data[k]]
    /\ UNCHANGED <<pc, frame_shape, processed_results, phases, score,
                   suggestions, error, geometry_vars, frames>>
    /\ UNCHANGED utility_vars

\* the page holds the time series of the session when it computes the metrics
RunCalculateMetrics ==
    /\ pc = "rerun"
    /\ ran["extract_time_series_data"] >= 1
    /\ Ran("calculate_performance_metrics")
    /\ metrics' = calculate_performance_metrics(biomechanics_data, processed_results)
    /\ UNCHANGED <<pc, frame_shape, processed_results, biomechanics_data, phases, score,
                   suggestions, error, geometry_vars, frames>>
    /\ UNCHANGED utility_vars

RunTechnicalScore ==
    /\ pc = "rerun"
    /\ ran["calculate_performance_metrics"] >= 1
    /\ Ran("calculate_technical_score")
    /\ score' = calculate_technical_score(metrics)
    /\ UNCHANGED <<pc, frame_shape, processed_results, biomechanics_data, phases, metrics,
                   suggestions, error, geometry_vars, frames>>
    /\ UNCHANGED utility_vars

RunGenerateSuggestions ==
    /\ pc = "rerun"
    /\ ran["calculate_performance_metrics"] >= 1
    /\ Ran("generate_suggestions")
    /\ LET s == generate_suggestions(metrics)
       IN  IF IsRaise(s)
           THEN error' = s.raise /\ UNCHANGED suggestions
           ELSE suggestions' = s /\ UNCHANGED error
    /\ UNCHANGED <<pc, frame_shape, processed_results, biomechanics_data, phases, metrics,
                   score, geometry_vars, frames>>
    /\ UNCHANGED utility_vars

NextRerun ==
    \/ RunExtractTimeSeries
    \/ RunIdentifyPhases
    \/ RunCalculateMetrics
    \/ RunTechnicalScore
    \/ RunGenerateSuggestions

SpecRerun == InitRerun /\ [][NextRerun]_vars

(***************************************************************************)
(* Fan-out / fan-in over the frames of a video: the body of the recording  *)
(* loop applied to the frames in any order, each result stored at its      *)
(* frame index, and the aggregation applied once every frame is done.      *)
(***************************************************************************)
MaxFanOutFrames == 3    \* frames of the video

Pending == [pending |-> TRUE]       \* a frame not yet extracted

FanOutLandmarkInputs ==
    { None,
      Landmarks("straight", NumLandmarks, AllJoints(90)),
      Landmarks("bent", NumLandmarks, AllJoints(VISIBILITY_THRESHOLD)),
      Landmarks("bent", NumLandmarks, [AllJoints(90) EXCEPT ![RIGHT_ELBOW] = 30]) }

FanOutShapeInputs == { <<4, 8>>, <<0, 8>> }

\* the recording loop over the frames in order
RECURSIVE process_frames_in_order(_, _, _)
process_frames_in_order(fs, shape, results) ==
    IF fs = <<>> THEN results
    ELSE process_frames_in_order(Tail(fs), shape,
                                 Append(results, frame_result(Head(fs), shape)))

InitFanOut ==
    /\ pc = "fanout"
    /\ frame_shape \in FanOutShapeInputs
    /\ frames \in UNION { [1..n -> FanOutLandmarkInputs] : n \in 0..MaxFanOutFrames }
    /\ processed_results = [i \in 1..Len(frames) |-> Pending]
    /\ biomechanics_data = None
    /\ phases = NoPhases
    /\ metrics = None
    /\ score = NoneInt
    /\ suggestions = EmptyDict
    /\ error = ""
    /\ points = <<>>
    /\ angle = NoneInt
    /\ vector_angle = NoneInt
    /\ ran = NeverRan
    /\ UtilitiesIdle

\* the loop body for the frame at position i (frame index i - 1)
ExtractFrame(i) ==
    /\ pc = "fanout"
    /\ processed_results[i] = Pending
    /\ processed_results' =
          [processed_results EXCEPT ![i] = frame_result(frames[i], frame_shape)]
    /\ UNCHANGED <<pc, frame_shape, frames, biomechanics_data, phases, metrics, score,
                   suggestions, error, geometry_vars, ran>>
    /\ UNCHANGED utility_vars

\* every frame is done: the results, in frame order, are aggregated and segmented
MergeResults ==
    /\ pc = "fanout"
    /\ \A i \in 1..Len(frames) : processed_results[i] # Pending
    /\ biomechanics_data' = extract_time_series_data(processed_results)
    /\ phases' = identify_bowling_phases(processed_results)
    /\ pc' = "merged"
    /\ UNCHANGED <<frame_shape, frames, processed_results, metrics, score,
                   suggestions, error, geometry_vars, ran>>
    /\ UNCHANGED utility_vars

NextFanOut ==
    \/ \E i \in 1..Len(frames) : ExtractFrame(i)
    \/ MergeResults

SpecFanOut == InitFanOut /\ [][NextFanOut]_vars

(***************************************************************************)
(* extract_frames of src/video_processor.py.  A video is the sequence of   *)
(* its frame numbers 0 .. total_frames - 1; a retained frame is its number.*)
(***************************************************************************)
MaxTotalFrames == 9     \* frames in a video
MaxMaxFrames == 4       \* the max_frames argument

\* the variables of the analysis functions while these are not running
AnalysisIdle ==
    /\ frame_shape = <<0, 0>>
    /\ biomechanics_data = None
    /\ metrics = None
    /\ score = NoneInt
    /\ suggestions = EmptyDict
    /\ points = <<>>
    /\ angle = NoneInt
    /\ vector_angle = NoneInt
    /\ ran = NeverRan

InitSampling ==
    /\ pc = "open"
    /\ total_frames \in 0..MaxTotalFrames
    /\ max_frames \in 1..MaxMaxFrames
    /\ sample_every = 1
    /\ frame_count = 0
    /\ frames = <<>>
    /\ processed_results = <<>>
    /\ phases = NoPhases
    /\ error = ""
    /\ AnalysisIdle /\ PageIdle /\ StoreIdle /\ SmoothingIdle

\* the video opened: the sampling rate is computed
OpenVideo ==
    /\ pc = "open"
    /\ sample_every' = Max2(1, total_frames \div max_frames)
    /\ frames' = <<>>
    /\ frame_count' = 0
    /\ pc' = "reading"
    /\ UNCHANGED <<total_frames, max_frames>>
    /\ UNCHANGED <<frame_shape, processed_results, biomechanics_data, phases, metrics, score,
                   suggestions, error, geometry_vars, ran>>
    /\ UNCHANGED <<page_vars, store_vars, smoothing_vars>>

\* cap.isOpened() is false: return [], 0
OpenFails ==
    /\ pc = "open"
    /\ frames' = <<>>
    /\ pc' = "returned"
    /\ UNCHANGED sampling_vars
    /\ UNCHANGED <<frame_shape, processed_results, biomechanics_data, phases, metrics, score,
                   suggestions, error, geometry_vars, ran>>
    /\ UNCHANGED <<page_vars, store_vars, smoothing_vars>>

\* one pass of the while loop with ret true
ReadFrame ==
    /\ pc = "reading"
    /\ frame_count < total_frames
    /\ frames' = IF frame_count % sample_every = 0 THEN Append(frames, frame_count)
                 ELSE frames
    /\ frame_count' = frame_count + 1
    /\ UNCHANGED <<pc, total_frames, max_frames, sample_every>>
    /\ UNCHANGED <<frame_shape, processed_results, biomechanics_data, phases, metrics, score,
                   suggestions, error, geometry_vars, ran>>
    /\ UNCHANGED <<page_vars, store_vars, smoothing_vars>>

\* ret is false: the loop ends and the frames are returned
ReturnFrames ==
    /\ pc = "reading"
    /\ frame_count = total_frames
    /\ pc' = "returned"
    /\ UNCHANGED <<frames, sampling_vars>>
    /\ UNCHANGED <<frame_shape, processed_results, biomechanics_data, phases, metrics, score,
                   suggestions, error, geometry_vars, ran>>
    /\ UNCHANGED <<page_vars, store_vars, smoothing_vars>>

NextSampling ==
    \/ OpenVideo
    \/ OpenFails
    \/ ReadFrame
    \/ ReturnFrames

SpecSampling == InitSampling /\ [][NextSampling]_vars

(***************************************************************************)
(* smooth_time_series of src/utils.py.  The input series holds whole       *)
(* numbers; the returned series is in fixed point (units of 1/Scale), the  *)
(* moving average truncated at that resolution.                            *)
(***************************************************************************)
MaxSmoothLen == 4       \* length of the input series
MaxWindow == 4          \* the window_size argument

SeriesValueInputs == { 0, 10, 40 }

\* data[:k]
slice_head(d, k) == SubSeq(d, 1, Min2(k, Len(d)))

\* data[-k:]; -0 is 0, so data[-0:] is the whole of data
slice_tail(d, k) == IF k = 0 THEN d ELSE SubSeq(d, Max2(1, Len(d) - k + 1), Len(d))

\* np.convolve(data, np.ones(w) / w, mode='valid')
convolve_valid(d, w) ==
    [i \in 1..(Len(d) - w + 1) |-> Fixed(SumSeq(SubSeq(d, i, i + w - 1))) \div w]

AsFixed(d) == [i \in 1..Len(d) |-> Fixed(d[i])]

smooth_time_series(d, w) ==
    IF Len(d) < w THEN AsFixed(d)
    ELSE LET moving == convolve_valid(d, w)
             pad_size == Len(d) - Len(moving)
             pad_left == pad_size \div 2
             pad_right == pad_size - pad_left
         IN  AsFixed(slice_head(d, pad_left)) \o moving \o AsFixed(slice_tail(d, pad_right))

InitSmoothing ==
    /\ pc = "smooth"
    /\ smooth_data \in UNION { [1..n -> SeriesValueInputs] : n \in 0..MaxSmoothLen }
    /\ window_size \in 1..MaxWindow
    /\ smoothed = <<>>
    /\ frames = <<>>
    /\ processed_results = <<>>
    /\ phases = NoPhases
    /\ error = ""
    /\ AnalysisIdle /\ SamplingIdle /\ PageIdle /\ StoreIdle

ApplySmoothTimeSeries ==
    /\ pc = "smooth"
    /\ smoothed' = smooth_time_series(smooth_data, window_size)
    /\ pc' = "smoothed"
    /\ UNCHANGED <<smooth_data, window_size>>
    /\ UNCHANGED <<frame_shape, processed_results, biomechanics_data, phases, metrics, score,
                   suggestions, error, geometry_vars, ran, frames>>
    /\ UNCHANGED <<sampling_vars, page_vars, store_vars>>

SpecSmoothing == InitSmoothing /\ [][ApplySmoothTimeSeries]_vars

(***************************************************************************)
(* Frame navigation of the analysis page of src/app.py.  Streamlit runs    *)
(* the page script from the top on every interaction: the slider is        *)
(* rendered first, then the handler of a pressed button runs and asks for  *)
(* a rerun.  st.slider is taken to return the position the user moved it   *)
(* to, or else its value argument; with a single frame (min = max) it may  *)
(* raise instead.                                                          *)
(***************************************************************************)
MaxSessionFrames == 10  \* frames of the longest session

\* the sessions: per-frame result sequences of 0, 1, 2, 4 and 10 frames
SessionInputs ==
    { <<>>,
      <<FrameResult(Measurement(180, 45, 150, 40, 20))>>,
      <<FrameResult(None), FrameResult(Measurement(180, 45, 150, 40, 20))>>,
      <<FrameResult(Measurement(100, 25, 100, 10, 60)), FrameResult(None),
        FrameResult(Measurement(170, 55, 175, 40, 30)),
        FrameResult(Measurement(180, 45, 150, 40, 20))>>,
      ExampleResults(4, 55) }

\* results[i] in Python
python_index(results, i) ==
    IF -Len(results) <= i /\ i < Len(results)
    THEN results[(i % Len(results)) + 1]
    ELSE Raise("IndexError")

\* the frame index used without the test against the frame count
initial_frame_index_kept(index, count) == index

\* "Initialize frame_index if needed"
initial_frame_index(index, count) == IF index >= count THEN 0 ELSE index

InitPage ==
    /\ pc = "page"
    /\ processed_results \in SessionInputs
    /\ frame_index = 0
    /\ current_result = None
    /\ phases = NoPhases
    /\ error = ""
    /\ frames = <<>>
    /\ AnalysisIdle /\ SamplingIdle /\ StoreIdle /\ SmoothingIdle

\* the slider and the current frame; moved is where the user put the slider
RenderSlider(moved) ==
    /\ pc = "page"
    /\ processed_results # <<>>
    /\ moved = NoneInt \/ moved < Len(processed_results)
    /\ LET start == initial_frame_index(frame_index, Len(processed_results))
           index == IF moved = NoneInt THEN start ELSE moved
           result == python_index(processed_results, index)
       IN  /\ frame_index' = index
           /\ current_result' = result
           /\ IF IsRaise(result)
              THEN error' = result.raise /\ pc' = "stopped"
              ELSE UNCHANGED error /\ pc' = "controls"
    /\ UNCHANGED <<frame_shape, processed_results, biomechanics_data, phases, metrics, score,
                   suggestions, geometry_vars, ran, frames>>
    /\ UNCHANGED <<sampling_vars, store_vars, smoothing_vars>>

\* st.slider("Frame", 0, 0, 0) raises: the run of the script ends
SliderRaises ==
    /\ pc = "page"
    /\ Len(processed_results) = 1
    /\ error' = "StreamlitAPIException"
    /\ pc' = "stopped"
    /\ UNCHANGED <<frame_shape, processed_results, biomechanics_data, phases, metrics, score,
                   suggestions, geometry_vars, ran, frames>>
    /\ UNCHANGED <<sampling_vars, page_vars, store_vars, smoothing_vars>>

\* "No processed results available for this session."
RenderNoFrames ==
    /\ pc = "page"
    /\ processed_results = <<>>
    /\ pc' = "controls"
    /\ UNCHANGED <<frame_shape, processed_results, biomechanics_data, phases, metrics, score,
                   suggestions, error, geometry_vars, ran, frames>>
    /\ UNCHANGED <<sampling_vars, page_vars, store_vars, smoothing_vars>>

\* the Previous button was pressed
Previous ==
    /\ pc = "controls"
    /\ frame_index' = Max2(0, frame_index - 1)
    /\ pc' = "page"
    /\ UNCHANGED <<frame_shape, processed_results, biomechanics_data, phases, metrics, score,
                   suggestions, error, geometry_vars, ran, frames, current_result>>
    /\ UNCHANGED <<sampling_vars, store_vars, smoothing_vars>>

\* the Next button was pressed
NextFrame ==
    /\ pc = "controls"
    /\ Len(processed_results) > 0
    /\ frame_index' = Min2(Len(processed_results) - 1, frame_index + 1)
    /\ pc' = "page"
    /\ UNCHANGED <<frame_shape, processed_results, biomechanics_data, phases, metrics, score,
                   suggestions, error, geometry_vars, ran, frames, current_result>>
    /\ UNCHANGED <<sampling_vars, store_vars, smoothing_vars>>

\* no button pressed: the metrics of the current frame, then the phase tab
ShowFrameMetrics ==
    /\ pc = "controls"
    /\ current_result' =
          IF processed_results # <<>> /\ 0 <= frame_index
             /\ frame_index < Len(processed_results)
          THEN python_index(processed_results, frame_index)
          ELSE current_result
    /\ phases' = identify_bowling_phases(processed_results)
    /\ pc' = "tabs"
    /\ UNCHANGED <<frame_shape, processed_results, biomechanics_data, metrics, score,
                   suggestions, error, geometry_vars, ran, frames, frame_index>>
    /\ UNCHANGED <<sampling_vars, store_vars, smoothing_vars>>

\* the "Go to <phase>" button of a detected phase was pressed
GoToPhase(phase_name) ==
    /\ pc = "tabs"
    /\ phases[phase_name] # NoneInt
    /\ 0 <= phases[phase_name] /\ phases[phase_name] < Len(processed_results)
    /\ frame_index' = phases[phase_name]
    /\ pc' = "page"
    /\ UNCHANGED <<frame_shape, processed_results, biomechanics_data, phases, metrics, score,
                   suggestions, error, geometry_vars, ran, frames, current_result>>
    /\ UNCHANGED <<sampling_vars, store_vars, smoothing_vars>>

\* any other interaction with the page (the slider was moved): a rerun
RerunPage ==
    /\ pc = "tabs"
    /\ pc' = "page"
    /\ UNCHANGED <<frame_shape, processed_results, biomechanics_data, phases, metrics, score,
                   suggestions, error, geometry_vars, ran, frames>>
    /\ UNCHANGED <<sampling_vars, page_vars, store_vars, smoothing_vars>>

\* "Load Selected Session" on the history page, then the analysis page
LoadSelectedSession(session) ==
    /\ pc \in {"tabs", "stopped"}
    /\ processed_results' = session
    /\ biomechanics_data' = extract_time_series_data(session)
    /\ frame_index' = 0
    /\ error' = ""
    /\ pc' = "page"
    /\ UNCHANGED <<frame_shape, phases, metrics, score, suggestions, geometry_vars, ran,
                   frames, current_result>>
    /\ UNCHANGED <<sampling_vars, store_vars, smoothing_vars>>

\* "Process Video" on the recording page, then the analysis page
ProcessNewVideo(session) ==
    /\ pc \in {"tabs", "stopped"}
    /\ session # <<>>
    /\ processed_results' = session
    /\ biomechanics_data' = extract_time_series_data(session)
    /\ error' = ""
    /\ pc' = "page"
    /\ UNCHANGED <<frame_shape, phases, metrics, score, suggestions, geometry_vars, ran,
                   frames, page_vars>>
    /\ UNCHANGED <<sampling_vars, store_vars, smoothing_vars>>

NextPage ==
    \/ \E moved \in {NoneInt} \cup 0..(MaxSessionFrames - 1) : RenderSlider(moved)
    \/ SliderRaises
    \/ RenderNoFrames
    \/ Previous
    \/ NextFrame
    \/ ShowFrameMetrics
    \/ \E phase_name \in PhaseNames : GoToPhase(phase_name)
    \/ RerunPage
    \/ \E session \in SessionInputs : LoadSelectedSession(session)
    \/ \E session \in SessionInputs : ProcessNewVideo(session)

SpecPage == InitPage /\ [][NextPage]_vars

(***************************************************************************)
(* The session store of src/data_handler.py: the metadata files and        *)
(* st.session_state.saved_sessions.                                        *)
(***************************************************************************)
SessionIds == { "s1", "s2" }

SessionDataInputs ==
    { [id |-> i, name |-> n, fps |-> 30, processed_results |-> r] :
          i \in SessionIds, n \in { "nets", "match" },
          r \in { <<>>, <<FrameResult(None)>> } }

\* the session data without the large frame data
session_metadata(session_data) ==
    [id |-> session_data.id, name |-> session_data.name, fps |-> session_data.fps]

\* st.session_state.saved_sessions after save_session
save_session(sessions, session_data) ==
    Put(IF sessions = None THEN EmptyDict ELSE sessions, session_data.id, session_data)

load_session(sessions, session_id) ==
    IF sessions = None THEN None
    ELSE IF session_id \in DOMAIN sessions THEN sessions[session_id]
    ELSE None

\* delete_session emptying the store
delete_session_all(sessions, session_id) ==
    IF sessions # None /\ session_id \in DOMAIN sessions
    THEN [sessions |-> EmptyDict, result |-> TRUE]
    ELSE [sessions |-> sessions, result |-> FALSE]

\* st.session_state.saved_sessions after delete_session, and what it returns
delete_session(sessions, session_id) ==
    IF sessions # None /\ session_id \in DOMAIN sessions
    THEN [sessions |-> [k \in DOMAIN sessions \ {session_id} |-> sessions[k]],
          result |-> TRUE]
    ELSE [sessions |-> sessions, result |-> FALSE]

InitStore ==
    /\ pc = "store"
    /\ saved_sessions = None
    /\ metadata_files = <<>>
    /\ call = <<>>
    /\ returned = None
    /\ processed_results = <<>>
    /\ phases = NoPhases
    /\ error = ""
    /\ frames = <<>>
    /\ AnalysisIdle /\ SamplingIdle /\ PageIdle /\ SmoothingIdle

SaveSession(session_data) ==
    /\ pc = "store"
    /\ metadata_files' = Put(metadata_files, session_data.id, session_metadata(session_data))
    /\ saved_sessions' = save_session(saved_sessions, session_data)
    /\ call' = <<"save_session", session_data>>
    /\ returned' = [metadata_path |-> session_data.id]
    /\ UNCHANGED <<pc, frame_shape, processed_results, biomechanics_data, phases, metrics,
                   score, suggestions, error, geometry_vars, ran, frames>>
    /\ UNCHANGED <<sampling_vars, page_vars, smoothing_vars>>

LoadSessionHistory ==
    /\ pc = "store"
    /\ saved_sessions' = IF saved_sessions = None THEN EmptyDict ELSE saved_sessions
    /\ call' = <<"load_session_history">>
    /\ returned' = { saved_sessions'[k] : k \in DOMAIN saved_sessions' }
    /\ UNCHANGED <<pc, frame_shape, processed_results, biomechanics_data, phases, metrics,
                   score, suggestions, error, geometry_vars, ran, frames>>
    /\ UNCHANGED <<sampling_vars, page_vars, smoothing_vars, metadata_files>>

LoadSession(session_id) ==
    /\ pc = "store"
    /\ call' = <<"load_session", session_id>>
    /\ returned' = load_session(saved_sessions, session_id)
    /\ UNCHANGED <<pc, frame_shape, processed_results, biomechanics_data, phases, metrics,
                   score, suggestions, error, geometry_vars, ran, frames>>
    /\ UNCHANGED <<sampling_vars, page_vars, smoothing_vars, metadata_files, saved_sessions>>

DeleteSession(session_id) ==
    /\ pc = "store"
    /\ LET deleted == delete_session(saved_sessions, session_id)
       IN  /\ saved_sessions' = deleted.sessions
           /\ returned' = deleted.result
    /\ call' = <<"delete_session", session_id>>
    /\ UNCHANGED <<pc, frame_shape, processed_results, biomechanics_data, phases, metrics,
                   score, suggestions, error, geometry_vars, ran, frames>>
    /\ UNCHANGED <<sampling_vars, page_vars, smoothing_vars, metadata_files>>

NextStore ==
    \/ \E session_data \in SessionDataInputs : SaveSession(session_data)
    \/ LoadSessionHistory
    \/ \E session_id \in SessionIds : LoadSession(session_id)
    \/ \E session_id \in SessionIds : DeleteSession(session_id)

SpecStore == InitStore /\ [][NextStore]_vars

(***************************************************************************)
(* Checked properties                                                      *)
(***************************************************************************)
\* the analysis functions were applied to processed_results (not to a
\* metrics mapping supplied by the caller)
SeriesDone == pc \in {"series", "phases", "metrics", "score", "done"} /\ biomechanics_data # None
PhasesDone == pc \in {"phases", "metrics", "score", "done"} /\ biomechanics_data # None
MetricsDone == pc \in {"metrics", "score", "done"}
ScoreDone == pc \in {"score", "done"}

FrameCount == Len(processed_results)
HasRecord(i) == processed_results[i + 1].biomechanics # None
ArmAt(i) == processed_results[i + 1].biomechanics.arm_angle
TrunkAt(i) == processed_results[i + 1].biomechanics.trunk_angle

AllFivePhases == \A p \in PhaseNames : phases[p] # NoneInt

\* number of frames with a measurement record before frame i
MeasuredBefore(i) == Cardinality({j \in 0..(i - 1) : HasRecord(j)})

\* C1 (as claimed): when all five phases are identified,
\* Run-up < Release < Follow Through.
C1_PhaseOrder_Claimed ==
    (PhasesDone /\ AllFivePhases) =>
        /\ phases["Run-up"] < phases["Release"]
        /\ phases["Release"] < phases["Follow Through"]

\* C1 (amended): when all five phases are identified, Release is strictly
\* before Follow Through, and Run-up is strictly before Release exactly when
\* at least three frames with a measurement precede the Release frame.
C1_PhaseOrder ==
    (PhasesDone /\ AllFivePhases) =>
        /\ phases["Release"] < phases["Follow Through"]
        /\ (phases["Run-up"] < phases["Release"]) <=> (MeasuredBefore(phases["Release"]) >= 3)

C1_Witness ==
    /\ PhasesDone /\ AllFivePhases
    /\ MeasuredBefore(phases["Release"]) >= 3
    /\ phases["Run-up"] < phases["Release"]

\* the 10-frame example: the arm angles of the example in every frame
ExampleArm ==
    /\ FrameCount = Len(ExampleArmAngles)
    /\ \A i \in 0..(FrameCount - 1) : HasRecord(i) /\ ArmAt(i) = ExampleArmAngles[i + 1]

\* ... and a trunk angle of 45 in every frame except 55 in frame 4
ExampleTrunk ==
    /\ FrameCount = Len(ExampleArmAngles)
    /\ \A i \in 0..(FrameCount - 1) :
          HasRecord(i) /\ TrunkAt(i) = (IF i = 4 THEN 55 ELSE 45)

\* C3 (as claimed): on the 10-frame example Loading is frame 4 and Release is
\* frame 4.
C3_Example_Claimed ==
    (PhasesDone /\ ExampleArm /\ ExampleTrunk) =>
        phases["Loading"] = 4 /\ phases["Release"] = 4

\* C3 (amended): on the 10-frame example Loading is frame 3, the frame the
\* trunk-angle jump starts from (the changes 3->4 and 4->5 are both 10 and the
\* first wins), and Release is frame 4.
C3_Example ==
    (PhasesDone /\ ExampleArm /\ ExampleTrunk) =>
        /\ phases["Loading"] = 3
        /\ Abs(TrunkAt(4) - TrunkAt(3)) = 10 /\ Abs(TrunkAt(5) - TrunkAt(4)) = 10
        /\ phases["Release"] = 4
        /\ ArmAt(4) = 180

C3_Witness == PhasesDone /\ ExampleArm /\ ExampleTrunk /\ phases["Loading"] # NoneInt

\* change of the arm angle from frame i to frame i+1
ArmDelta(i) == ArmAt(i + 1) - ArmAt(i)

\* C4 (as claimed): on the 10-frame example Delivery Stride is the frame of the
\* most negative arm-angle delta, which is the transition 5->6 with delta -29.
C4_Example_Claimed ==
    (PhasesDone /\ ExampleArm) =>
        /\ ArmDelta(5) = -29
        /\ \A i \in 0..(FrameCount - 2) : ArmDelta(5) <= ArmDelta(i)
        /\ phases["Delivery Stride"] = 5

\* C4 (amended): on the 10-frame example Delivery Stride is frame 6: the most
\* negative arm-angle delta is the transition 6->7 with delta -30; the
\* transition 5->6 has delta -29.
C4_Example ==
    (PhasesDone /\ ExampleArm) =>
        /\ ArmDelta(6) = -30
        /\ ArmDelta(5) = -29
        /\ \A i \in 0..(FrameCount - 2) : ArmDelta(6) <= ArmDelta(i)
        /\ phases["Delivery Stride"] = 6

C4_Witness == PhasesDone /\ ExampleArm /\ phases["Delivery Stride"] # NoneInt /\ pc = "done"

\* the frames that carry a measurement record, in frame order
RecordFrames == SelectSeq(processed_results, LAMBDA r : r.biomechanics # None)

\* C5: every measurement name's series has as many entries as there are frames
\* with a measurement record (at most the number of frames), the entries are
\* those frames' values in frame order, frames without a record contribute
\* nothing, and an empty input gives an empty mapping.
C5_TimeSeries ==
    SeriesDone =>
        /\ DOMAIN biomechanics_data \subseteq ScalarFields
        /\ (RecordFrames = <<>>) => (DOMAIN biomechanics_data = {})
        /\ \A name \in ScalarFields :
              LET series == Get(biomechanics_data, name, <<>>)
              IN  /\ Len(series) = Len(RecordFrames)
                  /\ Len(series) <= FrameCount
                  /\ \A k \in 1..Len(series) : series[k] = RecordFrames[k].biomechanics[name]

C5_Witness ==
    /\ SeriesDone
    /\ Len(RecordFrames) >= 2
    /\ Len(RecordFrames) < FrameCount
    /\ \E k \in 1..(Len(RecordFrames) - 1) :
          biomechanics_data["arm_angle"][k] # biomechanics_data["arm_angle"][k + 1]

SpecificAreas == {"Arm Action", "Trunk Position", "Hip-Shoulder Rotation",
                  "Front Leg", "Consistency"}

\* C6: for a metrics mapping with at least one metric the suggestions are
\* non-empty; when no specific rule fired they are exactly the one generic
\* "technique looks good" entry.
C6_SuggestionsNonEmpty ==
    (pc = "done" /\ metrics # None /\ DOMAIN metrics # {}) =>
        /\ error = ""
        /\ DOMAIN suggestions # {}
        /\ (DOMAIN suggestions \cap SpecificAreas = {}) =>
               /\ DOMAIN suggestions = {"General"}
               /\ suggestions["General"] = "technique looks good"

C6_Witness ==
    /\ pc = "done" /\ metrics # None /\ DOMAIN metrics # {}
    /\ DOMAIN suggestions = {"General"}

NoMeasurements == \A i \in 0..(FrameCount - 1) : ~HasRecord(i)

\* C7: when no frame has a measurement record (the empty sequence included)
\* the pipeline runs to its end without an exception: the time series is
\* empty, all five phases are unset, no metrics are produced, the score is 0
\* and the suggestions are empty.
C7_NoMeasurements ==
    (NoMeasurements /\ SeriesDone) =>
        /\ error = ""
        /\ DOMAIN biomechanics_data = {}
        /\ PhasesDone => \A p \in PhaseNames : phases[p] = NoneInt
        /\ (PhasesDone /\ MetricsDone) => metrics = None
        /\ (PhasesDone /\ ScoreDone) => score = 0
        /\ (pc = "done") => (DOMAIN suggestions = {})
        /\ (pc # "done") => ENABLED NextPure

C7_Witness == NoMeasurements /\ SeriesDone /\ pc = "done" /\ FrameCount >= 2

\* number of sub-scores calculate_technical_score can compute from metrics
Computable == Cardinality(DOMAIN metrics \cap ScoredMetricNames)

\* C2 (as claimed): the composite score of every metrics mapping with numeric
\* values is an integer in [0,100]; it is 0 for an empty or absent mapping and
\* whenever no sub-score is computable.
C2_ScoreRange_Claimed ==
    ScoreDone =>
        /\ score \in 0..100
        /\ (metrics = None \/ DOMAIN metrics = {}) => score = 0
        /\ (metrics # None /\ Computable = 0 /\ "Technical Efficiency" \notin DOMAIN metrics)
               => score = 0

\* C2 (what holds): the score of the metrics calculate_performance_metrics
\* produced from a per-frame sequence is in [0,100], and 0 when it produced none.
C2_ScoreRange_Pipeline ==
    (PhasesDone /\ ScoreDone) =>
        /\ score \in 0..100
        /\ (metrics = None) => score = 0

\* the recording loop: result i of the video being processed
Undetected(landmarks, i) ==
    \/ i >= Len(landmarks.landmark)
    \/ landmarks.landmark[i + 1].visibility < 50

NoJointDetected(landmarks) ==
    landmarks = None \/ \A i \in JointIndices : Undetected(landmarks, i)

AllScalarsZero(b) == \A f \in ScalarFields : b[f] = 0

\* C8 (as claimed): a frame in which no joint was detected is represented by
\* None, never by a measurement record whose scalars are all zero.
C8_NoRecordOfZeros_Claimed ==
    \A k \in 1..Len(processed_results) :
        LET r == processed_results[k]
        IN  /\ NoJointDetected(r.landmarks) => r.biomechanics = None
            /\ r.biomechanics # None => ~AllScalarsZero(r.biomechanics)

\* C9: extract_biomechanics never raises to its caller: for absent landmarks
\* and for a frame of height or width 0 it answers None.
C9_NeverRaises ==
    /\ error = ""
    /\ extract_biomechanics(None, frame_shape) = None
    /\ \A l \in LandmarkInputs : ~IsRaise(extract_biomechanics(l, frame_shape))
    /\ \A k \in 1..Len(processed_results) :
          (frame_shape[1] = 0 \/ frame_shape[2] = 0 \/ processed_results[k].landmarks = None)
              => processed_results[k].biomechanics = None

C9_Witness ==
    /\ pc = "processing"
    /\ frame_shape[1] = 0
    /\ \E k \in 1..Len(processed_results) :
          /\ processed_results[k].landmarks # None
          /\ processed_results[k].biomechanics = None

\* the pixel position of joint i: the sentinel (0,0) when the index is out of
\* range or the confidence is below 0.5, else (x * width, y * height)
ResolvedJoint(landmarks, i) ==
    IF Undetected(landmarks, i) THEN <<0, 0>>
    ELSE <<(landmarks.landmark[i + 1].x * frame_shape[2]) \div Unit,
           (landmarks.landmark[i + 1].y * frame_shape[1]) \div Unit>>

\* C10: every joint is resolved to the sentinel or to its scaled position as
\* above, and sentinel joints never discard the frame's record: with landmarks
\* present and a frame of positive height and width a record is returned.
C10_SentinelJoints ==
    \A k \in 1..Len(processed_results) :
        LET r == processed_results[k]
            b == r.biomechanics
        IN  (r.landmarks # None /\ frame_shape[1] > 0 /\ frame_shape[2] > 0) =>
                /\ b # None
                /\ DOMAIN b = ScalarFields \cup {"shoulder_coordinates",
                                                 "elbow_coordinates", "wrist_coordinates"}
                /\ b.shoulder_coordinates.left = ResolvedJoint(r.landmarks, LEFT_SHOULDER)
                /\ b.shoulder_coordinates.right = ResolvedJoint(r.landmarks, RIGHT_SHOULDER)
                /\ b.elbow_coordinates.left = ResolvedJoint(r.landmarks, LEFT_ELBOW)
                /\ b.elbow_coordinates.right = ResolvedJoint(r.landmarks, RIGHT_ELBOW)
                /\ b.wrist_coordinates.left = ResolvedJoint(r.landmarks, LEFT_WRIST)
                /\ b.wrist_coordinates.right = ResolvedJoint(r.landmarks, RIGHT_WRIST)
                /\ \A i \in JointIndices :
                      get_landmark_safely(r.landmarks, i, frame_shape[2], frame_shape[1])
                          = ResolvedJoint(r.landmarks, i)

C10_Witness ==
    \E k \in 1..Len(processed_results) :
        LET r == processed_results[k]
        IN  /\ r.landmarks # None /\ r.biomechanics # None
            /\ Undetected(r.landmarks, RIGHT_ELBOW)
            /\ r.biomechanics.elbow_coordinates.right = <<0, 0>>
            /\ r.biomechanics.wrist_coordinates.right # <<0, 0>>

\* the points of the angle functions, and whether they are whole pixels
PointA == points[1]
PointB == points[2]
PointC == points[3]
WholePixels == \A i \in 1..3 : points[i][3] = 0

\* C11 (as claimed): for all points calculate_angle is in [0,360) and
\* angle_between_points is in [0,180].
C11_AngleRange_Claimed ==
    /\ (pc \in {"angle", "angles"}) => (angle >= 0 /\ angle < 360)
    /\ (pc = "angles") => (vector_angle >= 0 /\ vector_angle <= 180)

\* C11 (what holds): calculate_angle is in [0,360], and in [0,360) for points on
\* whole pixels, where it is the difference of the two bearings at b with 360
\* added when negative; angle_between_points is in [0,180].
C11_AngleRange_Closed ==
    /\ (pc \in {"angle", "angles"}) =>
          /\ angle >= 0 /\ angle <= 360
          /\ WholePixels =>
                /\ angle < 360
                /\ angle = calculate_angle(<<PointA[1], PointA[2]>>, <<PointB[1], PointB[2]>>,
                                           <<PointC[1], PointC[2]>>)
    /\ (pc = "angles") => (vector_angle >= 0 /\ vector_angle <= 180)

\* C12 (as claimed): when a = b or c = b, angle_between_points returns 90 (or
\* an explicit undefined result) and no division by zero is propagated.
C12_ZeroLength_Claimed ==
    (pc = "angles" /\ (PointA = PointB \/ PointC = PointB)) =>
        /\ vector_angle \in {90, NoneInt}
        /\ error = ""

\* C12 (what holds): when a = b or c = b, angle_between_points returns 0 and no
\* division by zero is propagated.
C12_ZeroLength_Zero ==
    (pc = "angles" /\ (PointA = PointB \/ PointC = PointB)) =>
        /\ vector_angle = 0
        /\ error = ""

\* function f is applied in this step although it was applied before
Again(f) == ran[f] >= 1 /\ ran'[f] > ran[f]

\* two frames with a measurement are equally close to full extension
ReleaseTie ==
    \E i, j \in 0..(FrameCount - 1) :
        /\ i < j /\ HasRecord(i) /\ HasRecord(j)
        /\ Abs(ArmAt(i) - FULL_EXTENSION) = Abs(ArmAt(j) - FULL_EXTENSION)
        /\ \A k \in 0..(FrameCount - 1) :
              HasRecord(k) => Abs(ArmAt(i) - FULL_EXTENSION) <= Abs(ArmAt(k) - FULL_EXTENSION)

C14_InputsUnchanged ==
    [][(pc = "rerun") =>
          /\ processed_results' = processed_results
          /\ (biomechanics_data' # biomechanics_data)
                => ran'["extract_time_series_data"] > ran["extract_time_series_data"]
          /\ (metrics' # metrics)
                => ran'["calculate_performance_metrics"] > ran["calculate_performance_metrics"]
          /\ Again("extract_time_series_data") => biomechanics_data' = biomechanics_data
          /\ Again("identify_bowling_phases") => phases' = phases
          /\ Again("calculate_performance_metrics") => metrics' = metrics
          /\ Again("calculate_technical_score") => score' = score
          /\ Again("generate_suggestions") => suggestions' = suggestions]_vars

C14_Witness ==
    /\ pc = "rerun"
    /\ \A f \in AnalysisFunctions : ran[f] = MaxRuns
    /\ metrics # None
    /\ DOMAIN suggestions # {}
    /\ biomechanics_data = extract_time_series_data(processed_results)

\* what sequential in-order processing of the frames gives
InOrderResults == process_frames_in_order(frames, frame_shape, <<>>)

MeasuredFrames ==
    SelectSeq([i \in 1..FrameCount |-> i - 1], LAMBDA i : HasRecord(i))

\* the transitions between consecutive measured frames, by 0-based position
Transitions == 0..(Len(MeasuredFrames) - 2)
TrunkChange(k) == Abs(TrunkAt(MeasuredFrames[k + 2]) - TrunkAt(MeasuredFrames[k + 1]))
ArmChange(k) == ArmAt(MeasuredFrames[k + 2]) - ArmAt(MeasuredFrames[k + 1])

\* C16 (as claimed): Loading is the frame at the position of the maximum
\* absolute trunk-angle change, the first transition being left out of the
\* search; it is unset only when there is at most one transition or all
\* changes are equal.
C16_Loading_Claimed ==
    PhasesDone =>
        /\ phases["Loading"] # NoneInt =>
              \E k \in Transitions \ {0} :
                  /\ phases["Loading"] = MeasuredFrames[k + 1]
                  /\ \A j \in Transitions \ {0} : TrunkChange(j) <= TrunkChange(k)
        /\ phases["Loading"] = NoneInt =>
              \/ Cardinality(Transitions) <= 1
              \/ \A j \in Transitions : TrunkChange(j) = TrunkChange(0)

\* C16 (amended): Loading is the frame at the position of the first maximum
\* absolute trunk-angle change over all transitions, set only when that
\* position is not 0; it is unset exactly when there is no transition or no
\* later change exceeds the change of the first transition.
C16_Loading ==
    PhasesDone =>
        /\ phases["Loading"] # NoneInt =>
              \E k \in Transitions \ {0} :
                  /\ phases["Loading"] = MeasuredFrames[k + 1]
                  /\ \A j \in Transitions : TrunkChange(j) <= TrunkChange(k)
                  /\ \A j \in Transitions : j < k => TrunkChange(j) < TrunkChange(k)
        /\ phases["Loading"] = NoneInt <=>
              \/ Transitions = {}
              \/ \A j \in Transitions : TrunkChange(j) <= TrunkChange(0)

\* Loading is unset although a later transition changes more than another:
\* the largest change is the first transition
C16_Witness ==
    /\ PhasesDone
    /\ phases["Loading"] = NoneInt
    /\ Cardinality(Transitions) >= 3
    /\ \E j \in Transitions : TrunkChange(j) < TrunkChange(0)
    /\ \E i, j \in Transitions \ {0} : TrunkChange(i) < TrunkChange(j)

\* C17 (as claimed): Delivery Stride is the frame at the position of the most
\* negative arm-angle delta, the first transition being left out, and the arm
\* angle decreases at the selected transition.
C17_DeliveryStride_Claimed ==
    (PhasesDone /\ phases["Delivery Stride"] # NoneInt) =>
        \E k \in Transitions \ {0} :
            /\ phases["Delivery Stride"] = MeasuredFrames[k + 1]
            /\ \A j \in Transitions \ {0} : ArmChange(k) <= ArmChange(j)
            /\ ArmChange(k) < 0

\* C17 (what holds): Delivery Stride is the frame at the position of the first
\* minimum arm-angle delta over all transitions, set only when that position
\* is not 0, whatever the sign of that delta.
C17_DeliveryStride_FirstMin ==
    PhasesDone =>
        /\ phases["Delivery Stride"] # NoneInt =>
              \E k \in Transitions \ {0} :
                  /\ phases["Delivery Stride"] = MeasuredFrames[k + 1]
                  /\ \A j \in Transitions : ArmChange(k) <= ArmChange(j)
                  /\ \A j \in Transitions : j < k => ArmChange(k) < ArmChange(j)
        /\ phases["Delivery Stride"] = NoneInt <=>
              \/ Transitions = {}
              \/ \A j \in Transitions : ArmChange(0) <= ArmChange(j)

\* distance of the arm angle of frame i from full extension
Deviation(i) == Abs(ArmAt(i) - FULL_EXTENSION)

\* C18: Release is the frame, among the frames with a measurement, whose arm
\* angle is closest to 180, the earliest such frame on ties; it is identified
\* whenever a frame has a measurement and unset otherwise.
C18_Release ==
    PhasesDone =>
        IF MeasuredFrames = <<>> THEN phases["Release"] = NoneInt
        ELSE /\ phases["Release"] \in 0..(FrameCount - 1)
             /\ HasRecord(phases["Release"])
             /\ \A i \in 0..(FrameCount - 1) :
                   HasRecord(i) =>
                       /\ Deviation(phases["Release"]) <= Deviation(i)
                       /\ i < phases["Release"] => Deviation(phases["Release"]) < Deviation(i)

\* a tie for the closest frame, behind a frame without a measurement
C18_Witness ==
    /\ PhasesDone
    /\ FrameCount >= 3
    /\ ~HasRecord(0)
    /\ phases["Release"] # NoneInt
    /\ \E i \in 0..(FrameCount - 1) :
          HasRecord(i) /\ i > phases["Release"] /\ Deviation(i) = Deviation(phases["Release"])

\* C19: Run-up is the frame index of the third frame with a measurement when
\* more than 5 frames have one, and unset when 5 or fewer have; frames without
\* a measurement are not counted.
C19_RunUp ==
    PhasesDone =>
        IF Len(MeasuredFrames) > RUN_UP_MIN_FRAMES
        THEN phases["Run-up"] = MeasuredFrames[3]
        ELSE phases["Run-up"] = NoneInt

\* more than five measured frames, one without a measurement before the third
C19_Witness ==
    /\ PhasesDone
    /\ Len(MeasuredFrames) > RUN_UP_MIN_FRAMES
    /\ phases["Run-up"] = 3
    /\ ~HasRecord(1)

\* position (1-based) of Release in the list of measured frames, 0 when unset
ReleasePosition ==
    IF phases["Release"] = NoneInt THEN 0
    ELSE CHOOSE k \in 1..Len(MeasuredFrames) : MeasuredFrames[k] = phases["Release"]

\* C20: Follow Through is the frame three positions after Release in the list
\* of measured frames when that position exists, and unset otherwise; it is
\* never set when Release is unset.
C20_FollowThrough ==
    PhasesDone =>
        /\ phases["Release"] = NoneInt => phases["Follow Through"] = NoneInt
        /\ phases["Release"] # NoneInt =>
              IF ReleasePosition + FOLLOW_THROUGH_OFFSET <= Len(MeasuredFrames)
              THEN phases["Follow Through"] =
                       MeasuredFrames[ReleasePosition + FOLLOW_THROUGH_OFFSET]
              ELSE phases["Follow Through"] = NoneInt

\* Follow Through found by skipping a frame without a measurement
C20_Witness ==
    /\ PhasesDone
    /\ phases["Follow Through"] # NoneInt
    /\ phases["Follow Through"] > phases["Release"] + FOLLOW_THROUGH_OFFSET
    /\ \E i \in (phases["Release"] + 1)..(phases["Follow Through"] - 1) : ~HasRecord(i)

\* C21: the PhaseMap has exactly the five phase names, and every phase is
\* unset or bound to the index of a frame of the sequence that has a
\* measurement record.
C21_PhaseMap ==
    PhasesDone =>
        /\ DOMAIN phases = PhaseNames
        /\ \A p \in PhaseNames :
              \/ phases[p] = NoneInt
              \/ /\ phases[p] \in 0..(FrameCount - 1)
                 /\ HasRecord(phases[p])

\* phases are bound although the sequence starts and ends with frames without
\* a measurement, and another phase is unset
C21_Witness ==
    /\ PhasesDone
    /\ FrameCount >= 4
    /\ ~HasRecord(0) /\ ~HasRecord(FrameCount - 1)
    /\ phases["Release"] # NoneInt
    /\ phases["Delivery Stride"] # NoneInt
    /\ phases["Run-up"] = NoneInt

\* C22 (as claimed): the composite score is the mean of exactly those of the
\* four sub-scores (arm angle, hip-shoulder, trunk stability, knee) whose
\* metric is present, the knee sub-score included whenever Front Knee Angle
\* is present, also for the metrics calculate_performance_metrics produced.
C22_ScoreMean_Claimed ==
    (ScoreDone /\ Truthy(metrics) /\ technical_components(metrics) # <<>>) =>
        /\ Len(technical_components(metrics)) = Computable
        /\ score = PyInt(mean_fixed(technical_components(metrics)))

\* C22 (what holds): for the metrics calculate_performance_metrics produced the
\* score is the mean of the arm-angle, hip-shoulder and trunk-stability
\* sub-scores only; for a mapping without Technical Efficiency it is the mean
\* of the sub-scores present, the knee sub-score included.
C22_ScoreMean_Efficiency ==
    (ScoreDone /\ Truthy(metrics)) =>
        IF "Technical Efficiency" \in DOMAIN metrics
        THEN /\ score = PyInt(metrics["Technical Efficiency"])
             /\ PhasesDone =>
                   metrics["Technical Efficiency"] = mean_fixed(efficiency_components(metrics))
        ELSE technical_components(metrics) # <<>> =>
                 score = PyInt(mean_fixed(technical_components(metrics)))

\* the metrics were computed from processed_results and its time series
MetricsComputed == PhasesDone /\ MetricsDone /\ metrics # None

\* the record of the frame identified as Release
ReleaseRecord == processed_results[phases["Release"] + 1].biomechanics

\* position (1-based) in the arm-angle series of the first value nearest 180
NearestInSeries ==
    LET series == biomechanics_data["arm_angle"]
    IN  CHOOSE i \in 1..Len(series) :
            /\ \A j \in 1..Len(series) :
                  Abs(series[i] - FULL_EXTENSION) <= Abs(series[j] - FULL_EXTENSION)
            /\ \A j \in 1..(i - 1) :
                  Abs(series[i] - FULL_EXTENSION) < Abs(series[j] - FULL_EXTENSION)

\* C23 (as claimed): the three release metrics are read from the record of the
\* Release frame; when Release is unset but an arm-angle series exists, all
\* three are taken from the time-series frame whose arm angle is nearest 180.
C23_ReleaseMetrics_Claimed ==
    MetricsComputed =>
        /\ phases["Release"] # NoneInt =>
              /\ metrics["Arm Angle at Release"] = Fixed(ReleaseRecord.arm_angle)
              /\ "wrist_angle" \in DOMAIN ReleaseRecord =>
                    metrics["Wrist Angle at Release"] = Fixed(ReleaseRecord.wrist_angle)
              /\ "release_point_height" \in DOMAIN ReleaseRecord =>
                    metrics["Release Height"] = Fixed(ReleaseRecord.release_point_height)
        /\ (phases["Release"] = NoneInt /\ "arm_angle" \in DOMAIN biomechanics_data) =>
              /\ "Arm Angle at Release" \in DOMAIN metrics
              /\ metrics["Arm Angle at Release"] =
                    Fixed(biomechanics_data["arm_angle"][NearestInSeries])
              /\ ("wrist_angle" \in DOMAIN biomechanics_data
                  /\ Len(biomechanics_data["wrist_angle"]) = Len(biomechanics_data["arm_angle"])) =>
                    /\ "Wrist Angle at Release" \in DOMAIN metrics
                    /\ metrics["Wrist Angle at Release"] =
                          Fixed(biomechanics_data["wrist_angle"][NearestInSeries])
              /\ ("release_point_height" \in DOMAIN biomechanics_data
                  /\ Len(biomechanics_data["release_point_height"])
                         = Len(biomechanics_data["arm_angle"])) =>
                    /\ "Release Height" \in DOMAIN metrics
                    /\ metrics["Release Height"] =
                          Fixed(biomechanics_data["release_point_height"][NearestInSeries])

\* C23 (what holds): with Release identified the three metrics come from the
\* record of the Release frame; with Release unset and an arm-angle series,
\* only Arm Angle at Release is taken from the series, and Wrist Angle at
\* Release and Release Height are absent.
C23_ReleaseMetrics_ArmOnly ==
    MetricsComputed =>
        /\ phases["Release"] # NoneInt =>
              /\ metrics["Arm Angle at Release"] = Fixed(ReleaseRecord.arm_angle)
              /\ "wrist_angle" \in DOMAIN ReleaseRecord =>
                    metrics["Wrist Angle at Release"] = Fixed(ReleaseRecord.wrist_angle)
              /\ "release_point_height" \in DOMAIN ReleaseRecord =>
                    metrics["Release Height"] = Fixed(ReleaseRecord.release_point_height)
        /\ (phases["Release"] = NoneInt /\ "arm_angle" \in DOMAIN biomechanics_data) =>
              /\ metrics["Arm Angle at Release"] =
                    Fixed(biomechanics_data["arm_angle"][NearestInSeries])
              /\ "Wrist Angle at Release" \notin DOMAIN metrics
              /\ "Release Height" \notin DOMAIN metrics

\* the measurement a metric is computed from is present: in the record of the
\* Release frame or in the arm-angle series for the release metrics, in the
\* time series for the others
SourcePresent(metric) ==
    CASE metric = "Arm Angle at Release" ->
            \/ phases["Release"] # NoneInt /\ "arm_angle" \in DOMAIN ReleaseRecord
            \/ "arm_angle" \in DOMAIN biomechanics_data
      [] metric = "Wrist Angle at Release" ->
            phases["Release"] # NoneInt /\ "wrist_angle" \in DOMAIN ReleaseRecord
      [] metric = "Release Height" ->
            phases["Release"] # NoneInt /\ "release_point_height" \in DOMAIN ReleaseRecord
      [] metric = "Arm Angle Consistency" -> "arm_angle" \in DOMAIN biomechanics_data
      [] metric \in {"Max Trunk Angle", "Trunk Stability"} ->
            "trunk_angle" \in DOMAIN biomechanics_data
      [] metric = "Max Hip-Shoulder Separation" ->
            "hip_shoulder_separation" \in DOMAIN biomechanics_data
      [] metric = "Front Knee Angle" -> "front_knee_angle" \in DOMAIN biomechanics_data
      [] OTHER -> TRUE

\* C24 (as claimed): every metric in the mapping has its source measurement
\* present; a metric whose source is missing is absent, never reported as 0.
C24_NoDefaultZero_Claimed ==
    MetricsComputed => \A metric \in DOMAIN metrics : SourcePresent(metric)

\* C24 (what holds): the series metrics are present exactly when their series
\* is; Wrist Angle at Release and Release Height are present whenever Release
\* is identified, as 0 when the record of the Release frame lacks the field.
C24_DefaultZero ==
    MetricsComputed =>
        /\ \A metric \in DOMAIN metrics \ {"Wrist Angle at Release", "Release Height"} :
              SourcePresent(metric)
        /\ phases["Release"] # NoneInt =>
              /\ {"Wrist Angle at Release", "Release Height"} \subseteq DOMAIN metrics
              /\ "wrist_angle" \notin DOMAIN ReleaseRecord =>
                    metrics["Wrist Angle at Release"] = 0
              /\ "release_point_height" \notin DOMAIN ReleaseRecord =>
                    metrics["Release Height"] = 0

\* generate_suggestions has answered for a non-empty metrics mapping
SuggestionsDone == pc = "done" /\ Truthy(metrics) /\ error = ""

\* metric is present in the metrics mapping and satisfies Outside
Fires(metric, Outside(_)) == metric \in DOMAIN metrics /\ Outside(metrics[metric])

ArmOutside(v) == Abs(v - Fixed(180)) > Fixed(20)
TrunkOutside(v) == v < Fixed(30) \/ v > Fixed(60)
SeparationOutside(v) == v < Fixed(30)
KneeOutside(v) == v < Fixed(140) \/ v > Fixed(170)
ConsistencyOutside(v) == v > Fixed(20)

\* C25: each rule of generate_suggestions fires exactly when its metric is
\* present and outside its band (arm angle at release more than 20 from 180;
\* max trunk angle below 30 or above 60; max separation below 30; front knee
\* angle below 140 or above 170; arm-angle consistency above 20), a value on a
\* band limit fires no rule, and the General entry is present if and only if
\* no rule fired.
C25_SuggestionRules ==
    SuggestionsDone =>
        /\ "Arm Action" \in DOMAIN suggestions <=> Fires("Arm Angle at Release", ArmOutside)
        /\ "Trunk Position" \in DOMAIN suggestions <=> Fires("Max Trunk Angle", TrunkOutside)
        /\ "Hip-Shoulder Rotation" \in DOMAIN suggestions
              <=> Fires("Max Hip-Shoulder Separation", SeparationOutside)
        /\ "Front Leg" \in DOMAIN suggestions <=> Fires("Front Knee Angle", KneeOutside)
        /\ "Consistency" \in DOMAIN suggestions
              <=> Fires("Arm Angle Consistency", ConsistencyOutside)
        /\ "General" \in DOMAIN suggestions <=> DOMAIN suggestions \cap SpecificAreas = {}
        /\ DOMAIN suggestions \subseteq SpecificAreas \cup {"General"}

C25_Witness ==
    /\ SuggestionsDone
    /\ DOMAIN metrics = {"Arm Angle at Release", "Max Trunk Angle", "Max Hip-Shoulder Separation",
                         "Front Knee Angle", "Arm Angle Consistency"}
    /\ metrics["Arm Angle at Release"] = Fixed(200)
    /\ metrics["Max Trunk Angle"] = Fixed(60)
    /\ metrics["Max Hip-Shoulder Separation"] = Fixed(30)
    /\ metrics["Front Knee Angle"] = Fixed(140)
    /\ metrics["Arm Angle Consistency"] = Fixed(20)
    /\ DOMAIN suggestions = {"General"}

\* C26: processing a session produces exactly one result entry per extracted
\* frame, in frame order (position i of the results is frame i); a frame with
\* no detected pose or a failed extraction contributes an entry with an absent
\* measurement, and the loop goes on with the next frame: the session is never
\* aborted.
C26_OneEntryPerFrame ==
    /\ error = ""
    /\ pc \in {"processing", "analyze", "analyzed"} =>
          /\ Len(processed_results) <= Len(frames)
          /\ \A i \in 1..Len(processed_results) :
                /\ processed_results[i].landmarks = frames[i]
                /\ (frames[i] = None \/ frame_shape[1] = 0 \/ frame_shape[2] = 0) =>
                      processed_results[i].biomechanics = None
    /\ pc \in {"analyze", "analyzed"} => Len(processed_results) = Len(frames)

\* a bad first frame (no pose) and a failed extraction are followed by more entries
C26_Witness ==
    /\ pc = "analyze"
    /\ Len(frames) = MaxVideoFrames
    /\ frames[1] = None /\ frames[2] # None /\ frames[3] # None
    /\ processed_results[1].biomechanics = None
    /\ processed_results[2].biomechanics = None
    /\ frame_shape[1] = 0

\* extract_frames read the video to its end and returned
FramesReturned == pc = "returned" /\ frame_count = total_frames

\* frames holds every sample_every-th frame number from 0, below total_frames
EverySample ==
    /\ \A i \in 1..Len(frames) : frames[i] = (i - 1) * sample_every
    /\ Len(frames) * sample_every >= total_frames
    /\ Len(frames) > 0 => frames[Len(frames)] < total_frames

\* C27 (as claimed): for every frame count of the video and every max_frames
\* >= 1, extract_frames returns at most max_frames frames, the retained
\* frames being every sample_every-th frame from frame 0 in original order.
C27_AtMostMaxFrames_Claimed ==
    FramesReturned => (Len(frames) <= max_frames /\ EverySample)

\* C27 (what holds): the retained frames are every sample_every-th frame from
\* frame 0 with sample_every = max(1, total_frames // max_frames); there are
\* fewer than 2 * max_frames of them, and at most max_frames only where
\* max_frames divides total_frames or the video has at most max_frames frames.
C27_EverySample ==
    FramesReturned =>
        /\ EverySample
        /\ sample_every = Max2(1, total_frames \div max_frames)
        /\ Len(frames) < 2 * max_frames
        /\ (total_frames <= max_frames \/ total_frames % max_frames = 0) =>
              Len(frames) <= max_frames

\* smooth_time_series has returned
Smoothed == pc = "smoothed"

\* C30 (as claimed): for every input series and every window_size >= 1,
\* smooth_time_series returns a series of the length of its input: the input
\* itself when it is shorter than the window, otherwise the moving average
\* padded at both ends with original values.
C30_SameLength_Claimed ==
    Smoothed =>
        /\ Len(smoothed) = Len(smooth_data)
        /\ Len(smooth_data) < window_size => smoothed = AsFixed(smooth_data)

\* C30 (what holds): the length is kept for every window_size >= 2 and for an
\* empty input; for window_size = 1 the whole input is appended to the moving
\* average and the result has twice the length of the input.
C30_SameLengthUnlessOne ==
    Smoothed =>
        /\ Len(smooth_data) < window_size => smoothed = AsFixed(smooth_data)
        /\ window_size >= 2 => Len(smoothed) = Len(smooth_data)
        /\ window_size = 1 => smoothed = AsFixed(smooth_data) \o AsFixed(smooth_data)

\* frame_index is a position of the current session's result sequence
InRange(index) == 0 <= index /\ index < Len(processed_results)

\* C28: after any sequence of Previous, Next, Go to phase, slider moves,
\* loading a session and processing a new video with another frame count,
\* every use of frame_index to index the result sequence of the current
\* session has 0 <= frame_index < number of frames; Previous and Next
\* saturate at 0 and at the last frame, and Go to phase only ever sets an
\* index in range.
C28_FrameIndexInRange ==
    /\ [](/\ ~IsRaise(current_result)
          /\ (pc = "controls" /\ processed_results # <<>>) =>
                (InRange(frame_index)
                 /\ current_result = processed_results[frame_index + 1]))
    /\ [][/\ (pc = "controls" /\ pc' = "page" /\ processed_results # <<>>) =>
                /\ frame_index' \in { Max2(0, frame_index - 1),
                                      Min2(Len(processed_results) - 1, frame_index + 1) }
                /\ InRange(frame_index')
          /\ (pc = "tabs" /\ pc' = "page" /\ processed_results' = processed_results) =>
                InRange(frame_index') \/ processed_results = <<>>]_vars

\* a new video with fewer frames was processed while frame_index pointed past
\* its end, and the page is about to be rendered
C28_Witness ==
    /\ pc = "page"
    /\ processed_results # <<>>
    /\ frame_index >= Len(processed_results)

\* session_id is stored
Stored(session_id) == saved_sessions # None /\ session_id \in DOMAIN saved_sessions

\* what load_session would return for session_id after the step
LoadedNext(session_id) ==
    IF saved_sessions' # None /\ session_id \in DOMAIN saved_sessions'
    THEN saved_sessions'[session_id] ELSE None

\* what load_session would return for session_id before the step
Loaded(session_id) == IF Stored(session_id) THEN saved_sessions[session_id] ELSE None

\* C29: in the session store, load_session(id) returns the data most recently
\* saved under id if id was saved and not deleted since, and None otherwise:
\* save_session makes the saved data what load_session returns for its id and
\* changes no other session; load_session returns the stored data (None when
\* not stored) and changes nothing; delete_session(id) returns True exactly
\* when id was stored, removes only that session, and returns False leaving
\* the store unchanged when id is not stored.
C29_SessionStore ==
    [][/\ (call' # <<>> /\ call'[1] = "save_session") =>
             /\ LoadedNext(call'[2].id) = call'[2]
             /\ \A other \in SessionIds \ {call'[2].id} : LoadedNext(other) = Loaded(other)
       /\ (call' # <<>> /\ call'[1] = "load_session") =>
             /\ returned' = Loaded(call'[2])
             /\ saved_sessions' = saved_sessions
       /\ (call' # <<>> /\ call'[1] = "delete_session") =>
             /\ returned' = Stored(call'[2])
             /\ LoadedNext(call'[2]) = None
             /\ \A other \in SessionIds \ {call'[2]} : LoadedNext(other) = Loaded(other)
             /\ ~Stored(call'[2]) => saved_sessions' = saved_sessions]_vars

\* a stored session was deleted while another one stays stored
C29_Witness ==
    /\ call = <<"delete_session", "s1">>
    /\ returned = TRUE
    /\ saved_sessions # None
    /\ DOMAIN saved_sessions = {"s2"}

====
